---- MODULE Spec2Model ----
(***************************************************************************)
(* Production line simulator (WB / BB batches, Form -> Cook -> Cure ->     *)
(* Cut) of src/app.py, ProductionSimulator.simulate.                       *)
(*                                                                         *)
(* Time is counted in ticks of 0.05 h (HOUR = 20 ticks).  Every duration   *)
(* of the configurations below is a multiple of a tick, so the float       *)
(* arithmetic of the source is exact on these inputs.  A random.random()   *)
(* draw r is represented by its numerator over RDEN (r = n / RDEN).        *)
(***************************************************************************)
EXTENDS Integers, Sequences, FiniteSets, TLC

VARIABLES
    cfg,                    \* the configuration read by __init__
    stream,                 \* the random stream of this run (numerators)
    rng,                    \* position of the next draw in the stream
    pc,                     \* position inside one iteration of the main loop
    time,
    batch_id,
    batches,                \* ids of the batches still in the active list
    all_batches,            \* every Batch object ever created, by id
    total_wb, total_bb,
    wb_batches_formed, bb_batches_formed,
    team1_free, team2_free,
    oven1_free, oven2_free,
    form_area_free,
    last_form_clean_time, last_oven1_clean_time, last_oven2_clean_time,
    cleaning_events,
    being_cut,
    sheets_claimed_wb, sheets_claimed_bb,
    needs,                  \* the *_clean_needed / *_clean_urgent locals
    stalls,                 \* number of times the 0.1 h fallback was taken
    results                 \* run_monte_carlo: the results of the finished runs

vars == <<cfg, stream, rng, pc, time, batch_id, batches, all_batches,
          total_wb, total_bb, wb_batches_formed, bb_batches_formed,
          team1_free, team2_free, oven1_free, oven2_free, form_area_free,
          last_form_clean_time, last_oven1_clean_time, last_oven2_clean_time,
          cleaning_events, being_cut, sheets_claimed_wb, sheets_claimed_bb,
          needs, stalls, results>>

-----------------------------------------------------------------------------
(* Units and literals of the source, in ticks.                             *)

HOUR == 20
RDEN == 20
None == -1
Inf == 1000000
DAY == 480
CLEAN_DUE == 480
CLEAN_URGENT == 440
FORM_SOON == 10
SHIFT_MARGIN == 10
STALL_STEP == 2
DEFAULT_COOK == 200

(* Bounds of the model.                                                    *)
HorizonTicks == 560
StreamLen == 3
MonteCarloRuns == 2

Draws == {0, 15}

Strategies == {"ratio", "ratio_batches", "wb_first", "bb_first", "adaptive",
               "cure_aware", "goal_focused", "wb_until_done", "balanced_goal"}

TeamConfigs == {"1team", "2team_6-6", "2team_24/7"}

Configs ==
    [ TEAM_CONFIG       : TeamConfigs,
      NUM_OVEN_SETS     : {1, 2},
      PRIORITY_STRATEGY : Strategies,
      STOP_AT_TARGET    : BOOLEAN,
      CLEANING_ENABLED  : BOOLEAN,
      FORM_TIME         : {2 * HOUR},
      CUT_TIME          : {3 * HOUR},
      WB_PER_BATCH      : {3},
      BB_PER_BATCH      : {6},
      WB_COOK_TIMES     : {<<2 * HOUR, 3 * HOUR + 10>>},
      WB_COOK_WEIGHTS   : {<<1, 1>>},
      BB_COOK_TIMES     : {<<2 * HOUR + 10>>},
      BB_COOK_WEIGHTS   : {<<1>>},
      CURE_WB_MIN       : {HOUR},
      CURE_WB_MAX       : {2 * HOUR},
      CURE_WEIGHTS      : {<<1, 1>>},
      FORM_CLEAN_TIME   : {HOUR},
      OVEN_CLEAN_MIN    : {HOUR},
      OVEN_CLEAN_MAX    : {HOUR},
      OVEN_CLEAN_WEIGHTS: {<<1>>},
      WB_SHEETS         : {2},
      BB_SHEETS         : {2},
      WB_TARGET         : {6},
      BB_TARGET         : {12},
      TOTAL_HOURS       : {HorizonTicks},
      TEAM2_START       : {6 * HOUR},
      TEAM2_END         : {18 * HOUR} ]

Streams == [1..StreamLen -> Draws]

-----------------------------------------------------------------------------
(* Small helpers.                                                          *)

Min(S) == CHOOSE x \in S : \A y \in S : x <= y

Max2(a, b) == IF a >= b THEN a ELSE b

Min2(a, b) == IF a <= b THEN a ELSE b

RECURSIVE SumSeq(_)
SumSeq(s) == IF s = <<>> THEN 0 ELSE Head(s) + SumSeq(Tail(s))

SumTo(s, i) == SumSeq(SubSeq(s, 1, i))

Last(s) == s[Len(s)]

(* Batch ids are consecutive: the Batch object with a given id *)
B(id) == all_batches[id - all_batches[1].id + 1]

(* The k-th next draw (k = 0, 1, ...) and the stream position after n draws *)
Draw(k) == stream[((rng - 1 + k) % Len(stream)) + 1]

Consumed(n) == ((rng - 1 + n) % Len(stream)) + 1

-----------------------------------------------------------------------------
(* Random distribution samplers (app.py 117-184).                          *)

_get_weighted_cook_time(product) ==
    LET times   == IF product = "WB" THEN cfg.WB_COOK_TIMES ELSE cfg.BB_COOK_TIMES
        weights == IF product = "WB" THEN cfg.WB_COOK_WEIGHTS ELSE cfg.BB_COOK_WEIGHTS
    IN  IF times = <<>> THEN DEFAULT_COOK
        ELSE IF SumSeq(weights) <= 0
             THEN times[((Draw(0) * Len(times)) \div RDEN) + 1]
             ELSE LET hits == {i \in 1..Len(weights) :
                                 Draw(0) * SumSeq(weights) <= RDEN * SumTo(weights, i)}
                  IN  IF hits = {} THEN Last(times) ELSE times[Min(hits)]

CookDraws(product) ==
    LET times == IF product = "WB" THEN cfg.WB_COOK_TIMES ELSE cfg.BB_COOK_TIMES
    IN  IF times = <<>> THEN 0 ELSE 1

(* k0 is the number of draws already consumed in the same call of form()   *)
_get_weighted_cure_time(k0) ==
    LET weights == cfg.CURE_WEIGHTS
        total   == SumSeq(weights)
    IN  IF total <= 0
        THEN cfg.CURE_WB_MIN + ((cfg.CURE_WB_MAX - cfg.CURE_WB_MIN) * Draw(k0)) \div RDEN
        ELSE LET hits == {i \in 1..Len(weights) :
                            Draw(k0) * total <= RDEN * SumTo(weights, i)}
             IN  IF hits = {} THEN cfg.CURE_WB_MAX
                 ELSE cfg.CURE_WB_MIN + (Min(hits) - 1) * HOUR
                      + (HOUR * Draw(k0 + 1)) \div RDEN

CureDraws == IF SumSeq(cfg.CURE_WEIGHTS) <= 0 THEN 1 ELSE 2

_get_weighted_oven_clean_time ==
    IF cfg.OVEN_CLEAN_MIN >= cfg.OVEN_CLEAN_MAX THEN cfg.OVEN_CLEAN_MIN
    ELSE LET weights == cfg.OVEN_CLEAN_WEIGHTS
             total   == SumSeq(weights)
         IN  IF total <= 0
             THEN cfg.OVEN_CLEAN_MIN
                  + ((cfg.OVEN_CLEAN_MAX - cfg.OVEN_CLEAN_MIN) * Draw(0)) \div RDEN
             ELSE LET hits == {i \in 1..Len(weights) :
                                 Draw(0) * total <= RDEN * SumTo(weights, i)}
                  IN  IF hits = {} THEN cfg.OVEN_CLEAN_MAX
                      ELSE cfg.OVEN_CLEAN_MIN + (Min(hits) - 1) * HOUR
                           + (HOUR * Draw(1)) \div RDEN

OvenCleanDraws ==
    IF cfg.OVEN_CLEAN_MIN >= cfg.OVEN_CLEAN_MAX THEN 0
    ELSE IF SumSeq(cfg.OVEN_CLEAN_WEIGHTS) <= 0 THEN 1 ELSE 2

-----------------------------------------------------------------------------
(* Cleaning clocks (app.py 213-257), evaluated at loop start (612-617).    *)

(* the form area due one hour late                                         *)
needs_form_clean_late(t) ==
    cfg.CLEANING_ENABLED /\ t - last_form_clean_time >= CLEAN_DUE + HOUR

needs_form_clean(t) ==
    cfg.CLEANING_ENABLED /\ t - last_form_clean_time >= CLEAN_DUE

needs_oven1_clean(t) ==
    cfg.CLEANING_ENABLED /\ t - last_oven1_clean_time >= CLEAN_DUE

needs_oven2_clean(t) ==
    /\ cfg.CLEANING_ENABLED
    /\ cfg.NUM_OVEN_SETS >= 2
    /\ t - last_oven2_clean_time >= CLEAN_DUE

must_clean_oven1_urgently(t) ==
    cfg.CLEANING_ENABLED /\ t - last_oven1_clean_time >= CLEAN_URGENT

must_clean_oven2_urgently(t) ==
    /\ cfg.CLEANING_ENABLED
    /\ cfg.NUM_OVEN_SETS >= 2
    /\ t - last_oven2_clean_time >= CLEAN_URGENT

-----------------------------------------------------------------------------
(* Crew 2 shift helpers (app.py 307-332).                                  *)

team2_enabled == cfg.TEAM_CONFIG # "1team"

HourOfDay(t) == t % DAY

team2_on(t) ==
    IF cfg.TEAM_CONFIG = "2team_24/7" THEN TRUE
    ELSE cfg.TEAM2_START <= HourOfDay(t) /\ HourOfDay(t) < cfg.TEAM2_END

next_team2_start(t) ==
    IF cfg.TEAM_CONFIG = "2team_24/7" THEN t
    ELSE IF HourOfDay(t) < cfg.TEAM2_START
         THEN t + (cfg.TEAM2_START - HourOfDay(t))
    ELSE IF HourOfDay(t) >= cfg.TEAM2_END
         THEN t + (DAY - HourOfDay(t)) + cfg.TEAM2_START
    ELSE t

(* a shift end reported one hour late                                      *)
team2_shift_end_late(t) ==
    IF cfg.TEAM_CONFIG = "2team_24/7" THEN Inf
    ELSE IF cfg.TEAM2_START <= HourOfDay(t) /\ HourOfDay(t) < cfg.TEAM2_END
         THEN t + (cfg.TEAM2_END - HourOfDay(t)) + HOUR
         ELSE t

team2_shift_end(t) ==
    IF cfg.TEAM_CONFIG = "2team_24/7" THEN Inf
    ELSE IF cfg.TEAM2_START <= HourOfDay(t) /\ HourOfDay(t) < cfg.TEAM2_END
         THEN t + (cfg.TEAM2_END - HourOfDay(t))
         ELSE t

-----------------------------------------------------------------------------
(* Sheet accounting (app.py 334-350).                                      *)

ActiveIds(product) ==
    {i \in 1..Len(batches) :
        /\ B(batches[i]).product = product
        /\ (B(batches[i]).cut_end = None \/ B(batches[i]).cut_end > time)}

(* active_wb without the stop_at_target saturation                         *)
active_wb_unsaturated == Cardinality(ActiveIds("WB"))

active_wb ==
    IF cfg.STOP_AT_TARGET /\ total_wb >= cfg.WB_TARGET THEN cfg.WB_SHEETS
    ELSE Cardinality(ActiveIds("WB"))

active_bb ==
    IF cfg.STOP_AT_TARGET /\ total_bb >= cfg.BB_TARGET THEN cfg.BB_SHEETS
    ELSE Cardinality(ActiveIds("BB"))

curing_wb ==
    Cardinality({i \in 1..Len(batches) :
        /\ B(batches[i]).product = "WB"
        /\ B(batches[i]).cure_end > time
        /\ B(batches[i]).cut_end = None})

-----------------------------------------------------------------------------
(* Cutting contention (app.py 352-388).                                    *)

(* bb_cutting_machine_busy without the scan: no BB batch is ever reported  *)
(* as holding the cutter.                                                  *)
bb_cutting_machine_busy_never(exclude_set) == None

bb_cutting_machine_busy(exclude_set) ==
    LET inEx   == {i \in 1..Len(batches) :
                     B(batches[i]).product = "BB" /\ batches[i] \in exclude_set}
        paused == {i \in 1..Len(batches) :
                     /\ B(batches[i]).product = "BB"
                     /\ B(batches[i]).cut_progress > 0
                     /\ B(batches[i]).cut_end = None}
    IN  IF inEx # {} THEN batches[Min(inEx)]
        ELSE IF paused # {} THEN batches[Min(paused)]
        ELSE None

sort_key(id) ==
    IF B(id).product = "BB" /\ B(id).cut_progress > 0
    THEN <<0, -B(id).cut_progress, B(id).cure_end>>
    ELSE IF B(id).cut_progress > 0
         THEN <<1, -B(id).cut_progress, B(id).cure_end>>
         ELSE <<2, 0, B(id).cure_end>>

KeyLE(a, b) ==
    \/ a[1] < b[1]
    \/ a[1] = b[1] /\ a[2] < b[2]
    \/ a[1] = b[1] /\ a[2] = b[2] /\ a[3] <= b[3]

(* Python's sorted() is stable: equal keys keep the order of the list.     *)
(* Insertion sort, written with recursive functions so that each list is  *)
(* evaluated once.                                                         *)
InsertStable(x, s) ==
    LET ins[t \in Seq(Int)] ==
            IF t = <<>> THEN <<x>>
            ELSE IF KeyLE(sort_key(Head(t)), sort_key(x))
                 THEN <<Head(t)>> \o ins[Tail(t)]
                 ELSE <<x>> \o t
    IN  ins[s]

sorted(s) ==
    LET srt[t \in Seq(Int)] ==
            IF t = <<>> THEN <<>>
            ELSE InsertStable(Last(t), srt[SubSeq(t, 1, Len(t) - 1)])
    IN  srt[s]

(* readiness predicate of ready_to_cut (app.py 370)                        *)
(* readiness without the cure_end test                                     *)
Cured_always(id) == TRUE

Cured(id) == B(id).cure_end <= time

(* readiness without the cut_end test                                      *)
NotFinished_always(id) == TRUE

NotFinished(id) == B(id).cut_end = None

ready_to_cut(exclude) ==
    LET bb_in_progress == bb_cutting_machine_busy(exclude)
        ok(id) == /\ Cured(id)
                  /\ NotFinished(id)
                  /\ id \notin exclude
                  /\ ~(B(id).product = "BB" /\ bb_in_progress # None
                       /\ bb_in_progress # id)
    IN  sorted(SelectSeq(batches, ok))

-----------------------------------------------------------------------------
(* Priority policy (app.py 390-434).  Fractions are compared by cross      *)
(* multiplication; every denominator is positive.                          *)

Pct(n, target) == IF target > 0 THEN <<n, target>> ELSE <<1, 1>>

FracLess(a, b) == a[1] * b[2] < b[1] * a[2]

(* "at least 100%" read as "more than 100%".                               *)
FracGE1_strict(a) == a[1] > a[2]

FracGE1(a) == a[1] >= a[2]

(* wb_until_done deciding on the WB batches formed, not on the WB output.  *)
get_priority_wb_until_formed ==
    IF cfg.PRIORITY_STRATEGY = "wb_until_done"
    THEN wb_batches_formed * cfg.WB_PER_BATCH < cfg.WB_TARGET
    ELSE cfg.PRIORITY_STRATEGY # "bb_first"

get_priority ==
    LET s  == cfg.PRIORITY_STRATEGY
        tt == cfg.WB_TARGET + cfg.BB_TARGET
        eff == total_wb + curing_wb * cfg.WB_PER_BATCH
    IN  IF s = "ratio" THEN
            IF total_wb + total_bb = 0 THEN TRUE
            ELSE IF tt > 0
                 THEN total_wb * tt < cfg.WB_TARGET * (total_wb + total_bb)
                 ELSE 2 * total_wb < total_wb + total_bb
        ELSE IF s = "ratio_batches" THEN
            Max2(0, cfg.WB_TARGET - total_wb) * cfg.BB_PER_BATCH
              >= Max2(0, cfg.BB_TARGET - total_bb) * cfg.WB_PER_BATCH
        ELSE IF s = "wb_first" THEN TRUE
        ELSE IF s = "bb_first" THEN FALSE
        ELSE IF s = "adaptive" THEN
            FracLess(Pct(total_wb, cfg.WB_TARGET), Pct(total_bb, cfg.BB_TARGET))
        ELSE IF s = "cure_aware" THEN
            Max2(0, cfg.WB_TARGET - eff) * cfg.BB_PER_BATCH
              >= Max2(0, cfg.BB_TARGET - total_bb) * cfg.WB_PER_BATCH
        ELSE IF s = "goal_focused" THEN
            IF FracGE1(Pct(total_wb, cfg.WB_TARGET)) /\ FracGE1(Pct(total_bb, cfg.BB_TARGET))
            THEN TRUE
            ELSE FracLess(Pct(total_wb, cfg.WB_TARGET), Pct(total_bb, cfg.BB_TARGET))
        ELSE IF s = "wb_until_done" THEN total_wb < cfg.WB_TARGET
        ELSE IF s = "balanced_goal" THEN
            IF FracGE1(Pct(eff, cfg.WB_TARGET)) /\ FracGE1(Pct(total_bb, cfg.BB_TARGET))
            THEN FALSE
            ELSE FracLess(Pct(eff, cfg.WB_TARGET), Pct(total_bb, cfg.BB_TARGET))
        ELSE TRUE

-----------------------------------------------------------------------------
(* State after construction (app.py 187-211, 506-508).                     *)

NoNeeds == [form |-> FALSE, oven1 |-> FALSE, oven2 |-> FALSE,
            oven1_urgent |-> FALSE, oven2_urgent |-> FALSE]

InitRun ==
    /\ rng = 1
    /\ time = 0
    /\ pc = IF 0 < cfg.TOTAL_HOURS THEN "start" ELSE "done"
    /\ batch_id = 0
    /\ batches = <<>>
    /\ all_batches = <<>>
    /\ total_wb = 0 /\ total_bb = 0
    /\ wb_batches_formed = 0 /\ bb_batches_formed = 0
    /\ team1_free = 0 /\ team2_free = 0
    /\ oven1_free = 0 /\ oven2_free = 0
    /\ form_area_free = 0
    /\ last_form_clean_time = -CLEAN_DUE
    /\ last_oven1_clean_time = -CLEAN_DUE
    /\ last_oven2_clean_time = -CLEAN_DUE
    /\ cleaning_events = <<>>
    /\ being_cut = {}
    /\ sheets_claimed_wb = 0 /\ sheets_claimed_bb = 0
    /\ needs = NoNeeds
    /\ stalls = 0
    /\ results = <<>>

Init ==
    /\ cfg \in Configs
    /\ stream \in Streams
    /\ InitRun

Frame == UNCHANGED <<cfg, stream, time, needs, stalls, results>>

NoClaims == UNCHANGED <<sheets_claimed_wb, sheets_claimed_bb>>

cleanVars == <<last_form_clean_time, last_oven1_clean_time,
               last_oven2_clean_time, cleaning_events>>

(* a crew released one hour before the end of what it started              *)
SetFree_early(team_num, t) ==
    IF team_num = 1
    THEN team1_free' = t - HOUR /\ UNCHANGED team2_free
    ELSE team2_free' = t - HOUR /\ UNCHANGED team1_free

SetFree(team_num, t) ==
    IF team_num = 1
    THEN team1_free' = t /\ UNCHANGED team2_free
    ELSE team2_free' = t /\ UNCHANGED team1_free

NextPc(team_num) == pc' = IF team_num = 1 THEN "team2" ELSE "clock"

-----------------------------------------------------------------------------
(* Top of the main loop (app.py 596-617).                                  *)

StillActive(id) == B(id).cut_end = None \/ B(id).cut_end > time

(* The being_cut rebuild finding no batch in a running session.            *)
MidSession_never(id) == FALSE

MidSession(id) ==
    /\ B(id).cut_start # None
    /\ B(id).cut_end = None
    /\ B(id).cut_progress < cfg.CUT_TIME
    /\ B(id).cut_sessions # <<>>
    /\ Last(B(id).cut_sessions)[2] > time

LoopStart ==
    /\ pc = "start"
    /\ batches' = SelectSeq(batches, StillActive)
    /\ being_cut' = {batches[i] : i \in {j \in 1..Len(batches) :
                        StillActive(batches[j]) /\ MidSession(batches[j])}}
    /\ needs' = [form |-> needs_form_clean(time),
                 oven1 |-> needs_oven1_clean(time),
                 oven2 |-> needs_oven2_clean(time),
                 oven1_urgent |-> must_clean_oven1_urgently(time),
                 oven2_urgent |-> must_clean_oven2_urgently(time)]
    /\ sheets_claimed_wb' = 0
    /\ sheets_claimed_bb' = 0
    /\ pc' = "team1"
    /\ UNCHANGED <<cfg, stream, rng, time, batch_id, all_batches,
                   total_wb, total_bb, wb_batches_formed, bb_batches_formed,
                   team1_free, team2_free, oven1_free, oven2_free,
                   form_area_free, cleanVars, stalls, results>>

-----------------------------------------------------------------------------
(* Cleaning (app.py 259-305).                                              *)

do_form_clean(team_num) ==
    /\ last_form_clean_time' = time
    /\ form_area_free' = time + cfg.FORM_CLEAN_TIME
    /\ cleaning_events' = Append(cleaning_events,
           [type |-> "form_clean", team |-> team_num, oven_set |-> 0,
            start |-> time, end |-> time + cfg.FORM_CLEAN_TIME])
    /\ SetFree(team_num, time + cfg.FORM_CLEAN_TIME)
    /\ UNCHANGED <<rng, batch_id, batches, all_batches, total_wb, total_bb,
                   wb_batches_formed, bb_batches_formed, oven1_free, oven2_free,
                   last_oven1_clean_time, last_oven2_clean_time, being_cut>>

do_oven1_clean(team_num) ==
    LET clean_end == time + _get_weighted_oven_clean_time
    IN  /\ last_oven1_clean_time' = time
        /\ oven1_free' = clean_end
        /\ rng' = Consumed(OvenCleanDraws)
        /\ cleaning_events' = Append(cleaning_events,
               [type |-> "oven_clean", team |-> team_num, oven_set |-> 1,
                start |-> time, end |-> clean_end])
        /\ SetFree(team_num, clean_end)
        /\ UNCHANGED <<batch_id, batches, all_batches, total_wb, total_bb,
                       wb_batches_formed, bb_batches_formed, oven2_free,
                       form_area_free, last_form_clean_time,
                       last_oven2_clean_time, being_cut>>

do_oven2_clean(team_num) ==
    IF cfg.NUM_OVEN_SETS < 2
    THEN /\ SetFree(team_num, time)
         /\ UNCHANGED <<rng, batch_id, batches, all_batches, total_wb, total_bb,
                        wb_batches_formed, bb_batches_formed, oven1_free,
                        oven2_free, form_area_free, cleanVars, being_cut>>
    ELSE LET clean_end == time + _get_weighted_oven_clean_time
         IN  /\ last_oven2_clean_time' = time
             /\ oven2_free' = clean_end
             /\ rng' = Consumed(OvenCleanDraws)
             /\ cleaning_events' = Append(cleaning_events,
                    [type |-> "oven_clean", team |-> team_num, oven_set |-> 2,
                     start |-> time, end |-> clean_end])
             /\ SetFree(team_num, clean_end)
             /\ UNCHANGED <<batch_id, batches, all_batches, total_wb, total_bb,
                            wb_batches_formed, bb_batches_formed, oven1_free,
                            form_area_free, last_form_clean_time,
                            last_oven1_clean_time, being_cut>>

-----------------------------------------------------------------------------
(* form() (app.py 436-477).                                                *)

NewBatch(product, oven_num, team_num) ==
    LET cook_time == _get_weighted_cook_time(product)
        cure_time == IF product = "WB"
                     THEN _get_weighted_cure_time(CookDraws(product)) ELSE 0
        form_end  == time + cfg.FORM_TIME
    IN  [id |-> batch_id, product |-> product,
         form_start |-> time, form_end |-> form_end,
         cook_start |-> form_end, cook_time |-> cook_time,
         cook_end |-> form_end + cook_time,
         cure_time |-> cure_time,
         cure_start |-> form_end + cook_time,
         cure_end |-> form_end + cook_time + cure_time,
         cut_start |-> None, cut_end |-> None, cut_progress |-> 0,
         formed_by |-> team_num, cut_by |-> None, cut_sessions |-> <<>>,
         current_cut_session_start |-> None, current_cut_team |-> None,
         oven_set |-> oven_num]

form(product, oven_num, team_num) ==
    LET b == NewBatch(product, oven_num, team_num)
    IN  /\ all_batches' = Append(all_batches, b)
        /\ batches' = Append(batches, batch_id)
        /\ batch_id' = batch_id + 1
        /\ form_area_free' = b.form_end
        /\ rng' = Consumed(CookDraws(product)
                           + (IF product = "WB" THEN CureDraws ELSE 0))
        /\ wb_batches_formed' = wb_batches_formed + (IF product = "WB" THEN 1 ELSE 0)
        /\ bb_batches_formed' = bb_batches_formed + (IF product = "WB" THEN 0 ELSE 1)
        /\ IF oven_num = 1
           THEN oven1_free' = b.cook_end /\ UNCHANGED oven2_free
           ELSE oven2_free' = b.cook_end /\ UNCHANGED oven1_free
        /\ SetFree(team_num, b.form_end)
        /\ UNCHANGED <<total_wb, total_bb, cleanVars, being_cut>>

-----------------------------------------------------------------------------
(* cut() (app.py 479-504).  0.01 h is a fifth of a tick.                   *)

CutComplete(progress) == progress * 5 >= cfg.CUT_TIME * 5 - 1

CloseSession(b, session_end) ==
    [b EXCEPT !.cut_sessions = Append(@,
                  <<b.current_cut_session_start, session_end, b.current_cut_team>>),
              !.current_cut_session_start = None,
              !.current_cut_team = None]

(* cut() leaving the session of an interrupted cut open                    *)
cut_leaving_open(b, work_time, team_num, is_partial) ==
    LET b1 == IF b.cut_start = None THEN [b EXCEPT !.cut_start = time] ELSE b
        b2 == IF b1.current_cut_session_start = None
              THEN [b1 EXCEPT !.current_cut_session_start = time,
                              !.current_cut_team = team_num]
              ELSE b1
        b3 == [b2 EXCEPT !.cut_progress = @ + work_time]
        session_end == time + work_time
    IN  IF CutComplete(b3.cut_progress)
        THEN CloseSession([b3 EXCEPT !.cut_end = session_end], session_end)
        ELSE b3

cut(b, work_time, team_num, is_partial) ==
    LET b1 == IF b.cut_start = None THEN [b EXCEPT !.cut_start = time] ELSE b
        b2 == IF b1.current_cut_session_start = None
              THEN [b1 EXCEPT !.current_cut_session_start = time,
                              !.current_cut_team = team_num]
              ELSE b1
        b3 == [b2 EXCEPT !.cut_progress = @ + work_time]
        session_end == time + work_time
    IN  IF CutComplete(b3.cut_progress)
        THEN CloseSession([b3 EXCEPT !.cut_end = session_end], session_end)
        ELSE IF is_partial THEN CloseSession(b3, session_end)
        ELSE b3

(* cut() adding a session's output to every total, finished or not        *)
Yield_every_session(b, product) ==
    IF b.product = product
    THEN (IF product = "WB" THEN cfg.WB_PER_BATCH ELSE cfg.BB_PER_BATCH)
    ELSE 0

(* what the cut() call that left the batch as b added to the total of      *)
(* product (app.py 492-497): the batch's yield when the call completed it  *)
Yield(b, product) ==
    IF b.cut_end # None /\ b.product = product
    THEN (IF product = "WB" THEN cfg.WB_PER_BATCH ELSE cfg.BB_PER_BATCH)
    ELSE 0

(* A crew takes batch id: being_cut.add, cut_by if unset, cut(), and the   *)
(* crew is busy until free.                                                *)
StartCut(id, work_time, team_num, is_partial, free) ==
    \E b1 \in {cut(IF B(id).cut_by = None
                    THEN [B(id) EXCEPT !.cut_by = team_num] ELSE B(id),
                    work_time, team_num, is_partial)} :
        /\ being_cut' = being_cut \cup {id}
        /\ all_batches' = [all_batches EXCEPT ![id - all_batches[1].id + 1] = b1]
        /\ total_wb' = total_wb + Yield(b1, "WB")
        /\ total_bb' = total_bb + Yield(b1, "BB")
        /\ SetFree(team_num, free)
        /\ UNCHANGED <<rng, batch_id, batches, wb_batches_formed,
                       bb_batches_formed, oven1_free, oven2_free,
                       form_area_free, cleanVars>>

Wait(team_num, t) ==
    /\ SetFree(team_num, t)
    /\ UNCHANGED <<rng, batch_id, batches, all_batches, total_wb, total_bb,
                   wb_batches_formed, bb_batches_formed, oven1_free,
                   oven2_free, form_area_free, cleanVars, being_cut>>

RemainingCut(id) == cfg.CUT_TIME - B(id).cut_progress

CureEnds ==
    {B(batches[i]).cure_end : i \in {j \in 1..Len(batches) :
        B(batches[j]).cure_end > time /\ B(batches[j]).cut_end = None}}

NextAfter(events) == Min({e \in events : e > time})

-----------------------------------------------------------------------------
(* Oven selection helpers of the main loop (app.py 619-648, 812-821).      *)

get_best_oven ==
    IF cfg.NUM_OVEN_SETS = 2
    THEN IF oven1_free <= oven2_free THEN 1 ELSE 2
    ELSE 1

t2_best_oven ==
    IF cfg.NUM_OVEN_SETS = 2
    THEN IF oven1_free < oven2_free THEN 1 ELSE 2
    ELSE 1

OvenFree(oven_num) == IF oven_num = 1 THEN oven1_free ELSE oven2_free

get_free_oven_needing_clean ==
    IF needs.oven1 /\ oven1_free <= time THEN 1
    ELSE IF cfg.NUM_OVEN_SETS = 2 /\ needs.oven2 /\ oven2_free <= time THEN 2
    ELSE None

get_urgent_oven_not_free ==
    IF needs.oven1_urgent /\ oven1_free > time THEN 1
    ELSE IF cfg.NUM_OVEN_SETS = 2 /\ needs.oven2_urgent /\ oven2_free > time THEN 2
    ELSE None

-----------------------------------------------------------------------------
(* The form / cut / idle decision shared by crew 1 (app.py 681-784) and    *)
(* crew 2 in continuous mode (app.py 806-904).                             *)

(* the sheet test with <= in place of <                                    *)
WbSheetFree_inclusive == active_wb <= cfg.WB_SHEETS

WbSheetFree == active_wb < cfg.WB_SHEETS

BbSheetFree == active_bb < cfg.BB_SHEETS

sheets_available == WbSheetFree \/ BbSheetFree

BestOven(team_num) == IF team_num = 1 THEN get_best_oven ELSE t2_best_oven

(* forming without waiting for the oven set                                *)
oven_ready_after_form_always(team_num) == TRUE

oven_ready_after_form(team_num) ==
    OvenFree(BestOven(team_num)) <= time + cfg.FORM_TIME

can_form(team_num) ==
    /\ form_area_free <= time
    /\ sheets_available
    /\ oven_ready_after_form(team_num)

time_to_start_forming(team_num) ==
    Max2(0, OvenFree(BestOven(team_num)) - cfg.FORM_TIME - time)

(* events a crew with every sheet in use waits for (720-726, 849-853)      *)
SheetWaitEvents(team_num) ==
    {cfg.TOTAL_HOURS, form_area_free, OvenFree(BestOven(team_num))}
      \cup (IF team_num = 1 /\ cfg.NUM_OVEN_SETS = 2 THEN {oven2_free} ELSE {})
      \cup CureEnds

(* events an idle crew waits for (777-784, 898-904)                        *)
IdleEvents(team_num) ==
    {cfg.TOTAL_HOURS, form_area_free}
      \cup (IF sheets_available
            THEN {OvenFree(BestOven(team_num)) - cfg.FORM_TIME} ELSE {})
      \cup CureEnds

AllSheetsInUse(team_num, ready) ==
    IF ready # <<>>
    THEN \E remaining \in {RemainingCut(ready[1])} :
             StartCut(ready[1], remaining, team_num, FALSE, time + remaining)
    ELSE Wait(team_num, NextAfter(SheetWaitEvents(team_num)))

FormDecision(team_num) ==
    LET ready == ready_to_cut(being_cut)
        oven  == BestOven(team_num)
    IN  IF get_priority
        THEN IF WbSheetFree THEN form("WB", oven, team_num)
             ELSE IF BbSheetFree THEN form("BB", oven, team_num)
             ELSE AllSheetsInUse(team_num, ready)
        ELSE IF BbSheetFree THEN form("BB", oven, team_num)
             ELSE IF WbSheetFree THEN form("WB", oven, team_num)
             ELSE AllSheetsInUse(team_num, ready)

CutDecision(team_num) ==
    \E id \in {ready_to_cut(being_cut)[1]} :
    \E ttsf \in {time_to_start_forming(team_num)} :
    \E remaining \in {RemainingCut(id)} :
        IF ttsf > FORM_SOON /\ ttsf < remaining
        THEN StartCut(id, ttsf, team_num, TRUE, time + ttsf)
        ELSE StartCut(id, remaining, team_num, FALSE, time + remaining)

IdleDecision(team_num) == Wait(team_num, NextAfter(IdleEvents(team_num)))

-----------------------------------------------------------------------------
(* Crew 1 (app.py 651-784).                                                *)

(* crew 1 resting whenever it can neither clean nor form                   *)
T1Branch_never_cuts ==
    IF team1_free > time THEN "busy"
    ELSE IF needs.form /\ form_area_free <= time THEN "form_clean"
    ELSE IF get_free_oven_needing_clean # None THEN "oven_clean"
    ELSE IF get_urgent_oven_not_free # None THEN "urgent"
    ELSE IF can_form(1) THEN "form"
    ELSE "idle"

T1Branch ==
    IF team1_free > time THEN "busy"
    ELSE IF needs.form /\ form_area_free <= time THEN "form_clean"
    ELSE IF get_free_oven_needing_clean # None THEN "oven_clean"
    ELSE IF get_urgent_oven_not_free # None THEN "urgent"
    ELSE IF can_form(1) THEN "form"
    ELSE IF ready_to_cut(being_cut) # <<>> THEN "cut"
    ELSE "idle"

T1Busy ==
    /\ pc = "team1" /\ T1Branch = "busy"
    /\ Wait(1, team1_free)
    /\ NextPc(1) /\ Frame /\ NoClaims

T1FormClean ==
    /\ pc = "team1" /\ T1Branch = "form_clean"
    /\ do_form_clean(1)
    /\ NextPc(1) /\ Frame /\ NoClaims

T1OvenClean ==
    /\ pc = "team1" /\ T1Branch = "oven_clean"
    /\ IF get_free_oven_needing_clean = 1
       THEN do_oven1_clean(1) ELSE do_oven2_clean(1)
    /\ NextPc(1) /\ Frame /\ NoClaims

T1UrgentWait ==
    /\ pc = "team1" /\ T1Branch = "urgent"
    /\ \E urgent_oven_free \in {OvenFree(get_urgent_oven_not_free)} :
       \E ready \in {ready_to_cut(being_cut)} :
           IF ready # <<>>
           THEN \E remaining \in {RemainingCut(ready[1])} :
                \E work \in {Min2(urgent_oven_free - time, remaining)} :
                    StartCut(ready[1], work, 1, work < remaining, time + work)
           ELSE Wait(1, urgent_oven_free)
    /\ NextPc(1) /\ Frame /\ NoClaims

T1Form ==
    /\ pc = "team1" /\ T1Branch = "form"
    /\ FormDecision(1)
    /\ NextPc(1) /\ Frame /\ NoClaims

T1Cut ==
    /\ pc = "team1" /\ T1Branch = "cut"
    /\ CutDecision(1)
    /\ NextPc(1) /\ Frame /\ NoClaims

T1Idle ==
    /\ pc = "team1" /\ T1Branch = "idle"
    /\ IdleDecision(1)
    /\ NextPc(1) /\ Frame /\ NoClaims

-----------------------------------------------------------------------------
(* Crew 2 (app.py 786-937).                                                *)

T2Branch ==
    IF ~team2_enabled THEN "disabled"
    ELSE IF ~team2_on(time) THEN "off_shift"
    ELSE IF team2_free > time THEN "busy"
    ELSE IF cfg.TEAM_CONFIG = "2team_24/7"
    THEN IF needs.form /\ form_area_free <= time THEN "form_clean"
         ELSE IF cfg.NUM_OVEN_SETS = 2 /\ needs_oven2_clean(time) /\ oven2_free <= time
              THEN "oven2_clean"
         ELSE IF needs.oven1 /\ oven1_free <= time THEN "oven1_clean"
         ELSE IF can_form(2) THEN "form"
         ELSE IF ready_to_cut(being_cut) # <<>> THEN "cut"
         ELSE "idle"
    ELSE IF ready_to_cut(being_cut) # <<>> THEN "day_cut" ELSE "day_idle"

T2Skip ==
    /\ pc = "team2" /\ T2Branch \in {"disabled", "busy"}
    /\ Wait(2, team2_free)
    /\ NextPc(2) /\ Frame /\ NoClaims

T2OffShift ==
    /\ pc = "team2" /\ T2Branch = "off_shift"
    /\ Wait(2, next_team2_start(time))
    /\ NextPc(2) /\ Frame /\ NoClaims

T2FormClean ==
    /\ pc = "team2" /\ T2Branch = "form_clean"
    /\ do_form_clean(2)
    /\ NextPc(2) /\ Frame /\ NoClaims

T2Oven2Clean ==
    /\ pc = "team2" /\ T2Branch = "oven2_clean"
    /\ do_oven2_clean(2)
    /\ NextPc(2) /\ Frame /\ NoClaims

T2Oven1Clean ==
    /\ pc = "team2" /\ T2Branch = "oven1_clean"
    /\ do_oven1_clean(2)
    /\ NextPc(2) /\ Frame /\ NoClaims

T2Form ==
    /\ pc = "team2" /\ T2Branch = "form"
    /\ FormDecision(2)
    /\ NextPc(2) /\ Frame /\ NoClaims

T2Cut ==
    /\ pc = "team2" /\ T2Branch = "cut"
    /\ CutDecision(2)
    /\ NextPc(2) /\ Frame /\ NoClaims

T2Idle ==
    /\ pc = "team2" /\ T2Branch = "idle"
    /\ IdleDecision(2)
    /\ NextPc(2) /\ Frame /\ NoClaims

(* day-shift mode: cutting only (app.py 905-937)                           *)
T2DayCut ==
    /\ pc = "team2" /\ T2Branch = "day_cut"
    /\ \E id \in {ready_to_cut(being_cut)[1]} :
       \E shift_end \in {team2_shift_end(time)} :
       \E remaining \in {RemainingCut(id)} :
       LET time_until_shift_end == shift_end - time
       IN  IF time_until_shift_end < SHIFT_MARGIN /\ B(id).cut_progress = 0
           THEN Wait(2, next_team2_start(shift_end))
           ELSE IF time_until_shift_end < remaining
                THEN StartCut(id, time_until_shift_end, 2, TRUE,
                              next_team2_start(shift_end))
                ELSE StartCut(id, remaining, 2, FALSE, time + remaining)
    /\ NextPc(2) /\ Frame /\ NoClaims

T2DayIdle ==
    /\ pc = "team2" /\ T2Branch = "day_idle"
    /\ Wait(2, NextAfter({cfg.TOTAL_HOURS, team2_shift_end(time)} \cup CureEnds))
    /\ NextPc(2) /\ Frame /\ NoClaims

-----------------------------------------------------------------------------
(* Event clock (app.py 939-951).                                           *)

Events ==
    {cfg.TOTAL_HOURS, team1_free, oven1_free, oven1_free - cfg.FORM_TIME,
     form_area_free}
      \cup (IF cfg.NUM_OVEN_SETS = 2
            THEN {oven2_free, oven2_free - cfg.FORM_TIME} ELSE {})
      \cup (IF team2_enabled THEN {team2_free} ELSE {})
      \cup (IF team2_enabled /\ cfg.TEAM_CONFIG = "2team_6-6"
            THEN {IF team2_on(time) THEN team2_shift_end(time)
                  ELSE next_team2_start(time)}
            ELSE {})
      \cup CureEnds

(* candidate filter with >= in place of >                                  *)
FutureEvents_inclusive == {e \in Events : e >= time}

FutureEvents == {e \in Events : e > time}

(* a loop guard that also leaves the loop once both targets are reached    *)
LoopGuard_stop_at_target(t) ==
    /\ t < cfg.TOTAL_HOURS
    /\ ~(cfg.STOP_AT_TARGET /\ total_wb >= cfg.WB_TARGET
                            /\ total_bb >= cfg.BB_TARGET)

(* while time < self.TOTAL_HOURS (app.py 596)                              *)
LoopGuard(t) == t < cfg.TOTAL_HOURS

next_t == Min(FutureEvents)

AdvanceClock ==
    /\ pc = "clock"
    /\ time' = IF next_t > time THEN next_t ELSE time + STALL_STEP
    /\ stalls' = IF next_t > time THEN stalls ELSE stalls + 1
    /\ pc' = IF LoopGuard(time') THEN "start" ELSE "done"
    /\ UNCHANGED <<cfg, stream, rng, batch_id, batches, all_batches,
                   total_wb, total_bb, wb_batches_formed, bb_batches_formed,
                   team1_free, team2_free, oven1_free, oven2_free,
                   form_area_free, cleanVars, being_cut, sheets_claimed_wb,
                   sheets_claimed_bb, needs, results>>

Next ==
    \/ LoopStart
    \/ T1Busy \/ T1FormClean \/ T1OvenClean \/ T1UrgentWait
    \/ T1Form \/ T1Cut \/ T1Idle
    \/ T2Skip \/ T2OffShift \/ T2FormClean \/ T2Oven2Clean \/ T2Oven1Clean
    \/ T2Form \/ T2Cut \/ T2Idle
    \/ T2DayCut \/ T2DayIdle
    \/ AdvanceClock

Spec == Init /\ [][Next]_vars

-----------------------------------------------------------------------------
(***************************************************************************)
(* The command-line variant of the simulator, src/product_config.py:       *)
(* module-level configuration, no cleaning, no form-area bookkeeping, one  *)
(* do_work dispatch procedure called for both crews.                       *)
(***************************************************************************)

PCConfigs ==
    [ TEAM_CONFIG       : TeamConfigs,
      NUM_OVEN_SETS     : {1, 2},
      PRIORITY_STRATEGY : Strategies,
      FORM_TIME         : {2 * HOUR},
      CUT_TIME          : {3 * HOUR},
      COOK_TIME         : {2 * HOUR + 10},
      WB_PER_BATCH      : {3},
      BB_PER_BATCH      : {6},
      CURE_WB_MIN       : {HOUR},
      CURE_WB_MAX       : {2 * HOUR},
      WB_SHEETS         : {2},
      BB_SHEETS         : {2},
      WB_TARGET         : {6},
      BB_TARGET         : {12},
      TOTAL_HOURS       : {HorizonTicks},
      TEAM2_START       : {6 * HOUR},
      TEAM2_END         : {18 * HOUR} ]

PCInitRun ==
    /\ rng = 1
    /\ time = 0
    /\ pc = IF 0 < cfg.TOTAL_HOURS THEN "start" ELSE "done"
    /\ batch_id = 0
    /\ batches = <<>>
    /\ all_batches = <<>>
    /\ total_wb = 0 /\ total_bb = 0
    /\ wb_batches_formed = 0 /\ bb_batches_formed = 0
    /\ team1_free = 0 /\ team2_free = 0
    /\ oven1_free = 0
    /\ oven2_free = IF cfg.NUM_OVEN_SETS = 2 THEN 0 ELSE Inf
    /\ form_area_free = 0
    /\ last_form_clean_time = -CLEAN_DUE
    /\ last_oven1_clean_time = -CLEAN_DUE
    /\ last_oven2_clean_time = -CLEAN_DUE
    /\ cleaning_events = <<>>
    /\ being_cut = {}
    /\ sheets_claimed_wb = 0 /\ sheets_claimed_bb = 0
    /\ needs = NoNeeds
    /\ stalls = 0
    /\ results = <<>>

PCInit ==
    /\ cfg \in PCConfigs
    /\ stream \in Streams
    /\ PCInitRun

(* fields of the web variant that this variant does not have               *)
PCFrame ==
    UNCHANGED <<cfg, stream, time, needs, stalls, results, form_area_free, cleanVars>>

pc_active_wb == Cardinality(ActiveIds("WB"))

pc_active_bb == Cardinality(ActiveIds("BB"))

pc_sort_key(id, team_num) ==
    IF B(id).cut_progress > 0
    THEN IF B(id).cut_by = team_num THEN <<0, B(id).cure_end>>
         ELSE <<1, B(id).cure_end>>
    ELSE <<2, B(id).cure_end>>

PCKeyLE(a, b) == a[1] < b[1] \/ (a[1] = b[1] /\ a[2] <= b[2])

RECURSIVE PCInsertStable(_, _, _)
PCInsertStable(x, s, team_num) ==
    IF s = <<>> THEN <<x>>
    ELSE IF PCKeyLE(pc_sort_key(Head(s), team_num), pc_sort_key(x, team_num))
         THEN <<Head(s)>> \o PCInsertStable(x, Tail(s), team_num)
         ELSE <<x>> \o s

RECURSIVE pc_sorted(_, _)
pc_sorted(s, team_num) ==
    IF s = <<>> THEN <<>>
    ELSE PCInsertStable(Last(s), pc_sorted(SubSeq(s, 1, Len(s) - 1), team_num),
                        team_num)

pc_ready_to_cut(exclude, team_num) ==
    LET ok(id) == /\ B(id).cure_end <= time
                  /\ B(id).cut_end = None
                  /\ id \notin exclude
    IN  pc_sorted(SelectSeq(batches, ok), team_num)

PCLoopStart ==
    /\ pc = "start"
    /\ batches' = SelectSeq(batches, StillActive)
    /\ being_cut' = {batches[i] : i \in {j \in 1..Len(batches) :
                        StillActive(batches[j]) /\ MidSession(batches[j])}}
    /\ sheets_claimed_wb' = 0
    /\ sheets_claimed_bb' = 0
    /\ pc' = "team1"
    /\ UNCHANGED <<rng, batch_id, all_batches, total_wb, total_bb,
                   wb_batches_formed, bb_batches_formed, team1_free,
                   team2_free, oven1_free, oven2_free>>
    /\ PCFrame

(* Batch.__init__ and form() (product_config.py 101-119, 306-325)          *)
PCNewBatch(product, oven_num, team_num) ==
    LET cure == IF product = "WB"
                THEN cfg.CURE_WB_MIN
                     + ((cfg.CURE_WB_MAX - cfg.CURE_WB_MIN) * Draw(0)) \div RDEN
                ELSE 0
        form_end == time + cfg.FORM_TIME
    IN  [id |-> batch_id + 1, product |-> product,
         form_start |-> time, form_end |-> form_end,
         cook_start |-> form_end, cook_time |-> cfg.COOK_TIME,
         cook_end |-> form_end + cfg.COOK_TIME,
         cure_time |-> cure,
         cure_start |-> form_end + cfg.COOK_TIME,
         cure_end |-> form_end + cfg.COOK_TIME + cure,
         cut_start |-> None, cut_end |-> None, cut_progress |-> 0,
         formed_by |-> team_num, cut_by |-> None, cut_sessions |-> <<>>,
         current_cut_session_start |-> None, current_cut_team |-> None,
         oven_set |-> oven_num]

pc_form(product, oven_num, team_num) ==
    LET b == PCNewBatch(product, oven_num, team_num)
    IN  /\ batch_id' = batch_id + 1
        /\ all_batches' = Append(all_batches, b)
        /\ batches' = Append(batches, batch_id + 1)
        /\ rng' = Consumed(IF product = "WB" THEN 1 ELSE 0)
        /\ IF oven_num = 1
           THEN oven1_free' = b.cook_end /\ UNCHANGED oven2_free
           ELSE oven2_free' = b.cook_end /\ UNCHANGED oven1_free
        /\ wb_batches_formed' = wb_batches_formed + (IF product = "WB" THEN 1 ELSE 0)
        /\ bb_batches_formed' = bb_batches_formed + (IF product = "WB" THEN 0 ELSE 1)
        /\ sheets_claimed_wb' = sheets_claimed_wb + (IF product = "WB" THEN 1 ELSE 0)
        /\ sheets_claimed_bb' = sheets_claimed_bb + (IF product = "WB" THEN 0 ELSE 1)
        /\ SetFree(team_num, b.form_end)
        /\ UNCHANGED <<total_wb, total_bb, being_cut>>

(* cut() (product_config.py 327-362)                                       *)
pc_cut(b, hours, team_num, is_partial) ==
    LET b1 == IF b.cut_start = None
              THEN [b EXCEPT !.cut_start = time, !.cut_by = team_num] ELSE b
        b2 == IF b1.current_cut_session_start = None
              THEN [b1 EXCEPT !.current_cut_session_start = time,
                              !.current_cut_team = team_num]
              ELSE b1
        b3 == [b2 EXCEPT !.cut_progress = @ + hours]
        actual_end == time + (cfg.CUT_TIME - (b3.cut_progress - hours))
    IN  IF b3.cut_progress >= cfg.CUT_TIME
        THEN CloseSession([b3 EXCEPT !.cut_end = actual_end], actual_end)
        ELSE IF is_partial THEN CloseSession(b3, time + hours)
        ELSE b3

PCStartCut(id, hours, team_num, is_partial, free, claim_cut_by) ==
    LET b0 == IF claim_cut_by /\ B(id).cut_by = None
              THEN [B(id) EXCEPT !.cut_by = team_num] ELSE B(id)
        b1 == pc_cut(b0, hours, team_num, is_partial)
        counted == b1.cut_end # None /\ b1.cut_end <= cfg.TOTAL_HOURS
    IN  /\ being_cut' = being_cut \cup {id}
        /\ all_batches' = [all_batches EXCEPT ![id - all_batches[1].id + 1] = b1]
        /\ total_wb' = total_wb + (IF counted /\ b1.product = "WB" THEN cfg.WB_PER_BATCH ELSE 0)
        /\ total_bb' = total_bb + (IF counted /\ b1.product # "WB" THEN cfg.BB_PER_BATCH ELSE 0)
        /\ SetFree(team_num, free)
        /\ UNCHANGED <<rng, batch_id, batches, wb_batches_formed,
                       bb_batches_formed, oven1_free, oven2_free,
                       sheets_claimed_wb, sheets_claimed_bb>>

(* do_work returns time: the crew stays free; exclude is being_cut after   *)
(* the call                                                                *)
PCReturnTime(team_num, exclude) ==
    /\ SetFree(team_num, time)
    /\ being_cut' = exclude
    /\ UNCHANGED <<rng, batch_id, batches, all_batches, total_wb, total_bb,
                   wb_batches_formed, bb_batches_formed, oven1_free,
                   oven2_free, sheets_claimed_wb, sheets_claimed_bb>>

PCNoWork ==
    UNCHANGED <<rng, batch_id, batches, all_batches, total_wb, total_bb,
                wb_batches_formed, bb_batches_formed, team1_free, team2_free,
                oven1_free, oven2_free, sheets_claimed_wb, sheets_claimed_bb,
                being_cut>>

pc_available_wb == cfg.WB_SHEETS - pc_active_wb - sheets_claimed_wb

pc_available_bb == cfg.BB_SHEETS - pc_active_bb - sheets_claimed_bb

(* do_work (product_config.py 364-453)                                     *)
do_work(oven_num, deadline, shift_end, team_num) ==
    LET wb_priority == get_priority
        can_form0   == time >= deadline
        can_form1   == IF shift_end # Inf
                       THEN can_form0 /\ (shift_end - time) >= cfg.FORM_TIME
                       ELSE can_form0
        ready       == pc_ready_to_cut(being_cut, team_num)
        almost(id)  == /\ cfg.CUT_TIME - B(id).cut_progress < HOUR
                       /\ B(id).cut_progress > 0
                       /\ B(id).cut_by = team_num
        almost_done == SelectSeq(ready, almost)
    IN  IF almost_done # <<>>
        THEN LET id == almost_done[1]
                 remaining == RemainingCut(id)
             IN  IF shift_end # Inf /\ time + remaining > shift_end
                 THEN IF shift_end - time > 0
                      THEN PCStartCut(id, shift_end - time, team_num, TRUE,
                                      next_team2_start(shift_end), FALSE)
                      ELSE PCReturnTime(team_num, being_cut \cup {id})
                 ELSE PCStartCut(id, remaining, team_num, FALSE,
                                 time + remaining, FALSE)
        ELSE IF can_form1
        THEN IF wb_priority /\ pc_available_wb > 0 THEN pc_form("WB", oven_num, team_num)
             ELSE IF wb_priority /\ pc_available_bb > 0 THEN pc_form("BB", oven_num, team_num)
             ELSE IF ~wb_priority /\ pc_available_bb > 0 THEN pc_form("BB", oven_num, team_num)
             ELSE IF ~wb_priority /\ pc_available_wb > 0 THEN pc_form("WB", oven_num, team_num)
             ELSE IF ready # <<>>
                  THEN PCStartCut(ready[1], RemainingCut(ready[1]), team_num,
                                  FALSE, time + RemainingCut(ready[1]), TRUE)
                  ELSE PCReturnTime(team_num, being_cut)
        ELSE IF ready # <<>>
        THEN LET id == ready[1]
                 window == Min2(deadline - time, shift_end - time)
                 remaining == RemainingCut(id)
                 work == Min2(window, remaining)
             IN  IF window < HOUR /\ B(id).cut_progress = 0
                 THEN PCReturnTime(team_num, being_cut)
                 ELSE IF window > 0
                      THEN PCStartCut(id, work, team_num, work < remaining,
                               IF shift_end # Inf /\ time + work >= shift_end
                               THEN next_team2_start(shift_end)
                               ELSE time + work, TRUE)
                      ELSE PCReturnTime(team_num, being_cut)
        ELSE PCReturnTime(team_num, being_cut)

(* main loop, crew 1 (product_config.py 476-484)                           *)
PCTeam1Busy ==
    /\ pc = "team1" /\ team1_free > time
    /\ PCNoWork
    /\ pc' = "team2" /\ PCFrame

PCTeam1Work ==
    /\ pc = "team1" /\ team1_free <= time
    /\ do_work(1, oven1_free - cfg.FORM_TIME, Inf, 1)
    /\ pc' = "team2" /\ PCFrame

(* main loop, crew 2 (product_config.py 486-501)                           *)
pc_team2_enabled == cfg.TEAM_CONFIG \in {"2team_6-6", "2team_24/7"}

pc_team2_on(t) ==
    IF cfg.TEAM_CONFIG = "2team_24/7" THEN TRUE
    ELSE IF cfg.TEAM_CONFIG = "2team_6-6"
         THEN cfg.TEAM2_START <= HourOfDay(t) /\ HourOfDay(t) < cfg.TEAM2_END
         ELSE FALSE

PCTeam2Skip ==
    /\ pc = "team2"
    /\ ~pc_team2_enabled \/ (pc_team2_on(time) /\ team2_free > time)
    /\ PCNoWork
    /\ pc' = "clock" /\ PCFrame

PCTeam2OffShift ==
    /\ pc = "team2" /\ pc_team2_enabled /\ ~pc_team2_on(time)
    /\ SetFree(2, next_team2_start(time))
    /\ UNCHANGED <<rng, batch_id, batches, all_batches, total_wb, total_bb,
                   wb_batches_formed, bb_batches_formed, oven1_free,
                   oven2_free, sheets_claimed_wb, sheets_claimed_bb, being_cut>>
    /\ pc' = "clock" /\ PCFrame

PCTeam2Work ==
    /\ pc = "team2" /\ pc_team2_enabled /\ pc_team2_on(time) /\ team2_free <= time
    /\ IF cfg.NUM_OVEN_SETS = 2
       THEN do_work(2, oven2_free - cfg.FORM_TIME, team2_shift_end(time), 2)
       ELSE do_work(1, oven1_free - cfg.FORM_TIME, team2_shift_end(time), 2)
    /\ pc' = "clock" /\ PCFrame

(* event clock (product_config.py 503-515)                                 *)
PCEvents ==
    {cfg.TOTAL_HOURS, team1_free, oven1_free, oven1_free - cfg.FORM_TIME}
      \cup (IF cfg.NUM_OVEN_SETS = 2
            THEN {oven2_free, oven2_free - cfg.FORM_TIME} ELSE {})
      \cup (IF pc_team2_enabled THEN {team2_free} ELSE {})
      \cup (IF pc_team2_enabled /\ cfg.TEAM_CONFIG = "2team_6-6"
            THEN {IF pc_team2_on(time) THEN team2_shift_end(time)
                  ELSE next_team2_start(time)}
            ELSE {})
      \cup CureEnds

pc_next_t == Min({e \in PCEvents : e > time})

PCAdvanceClock ==
    /\ pc = "clock"
    /\ time' = IF pc_next_t > time THEN pc_next_t ELSE time + STALL_STEP
    /\ stalls' = IF pc_next_t > time THEN stalls ELSE stalls + 1
    /\ pc' = IF time' < cfg.TOTAL_HOURS THEN "start" ELSE "done"
    /\ UNCHANGED <<cfg, stream, rng, batch_id, batches, all_batches,
                   total_wb, total_bb, wb_batches_formed, bb_batches_formed,
                   team1_free, team2_free, oven1_free, oven2_free,
                   form_area_free, cleanVars, being_cut, sheets_claimed_wb,
                   sheets_claimed_bb, needs, results>>

PCNext ==
    \/ PCLoopStart
    \/ PCTeam1Busy \/ PCTeam1Work
    \/ PCTeam2Skip \/ PCTeam2OffShift \/ PCTeam2Work
    \/ PCAdvanceClock

SpecPC == PCInit /\ [][PCNext]_vars

-----------------------------------------------------------------------------
(* Both variants of the simulator side by side: a run is a run of the web  *)
(* variant or a run of the command-line variant.                           *)

IsPC == "COOK_TIME" \in DOMAIN cfg

InitBoth == Init \/ PCInit

NextBoth == (~IsPC /\ Next) \/ (IsPC /\ PCNext)

SpecBoth == InitBoth /\ [][NextBoth]_vars

(* The runs of Spec together with the runs in which cleaning is enabled    *)
(* and a form-area cleaning takes no time (form_clean_time = 0 is accepted *)
(* by __init__, app.py 79).                                                *)
ZeroCleanInit ==
    /\ cfg \in {[c EXCEPT !.FORM_CLEAN_TIME = 0] :
                  c \in {d \in Configs : d.CLEANING_ENABLED}}
    /\ stream \in Streams
    /\ InitRun

SpecCleanTimes == (Init \/ ZeroCleanInit) /\ [][Next]_vars

(* Scenario A of the specification: one crew, one oven set, three WB and   *)
(* two BB sheets, forming 6 h, cutting 8 h, one cook time of 10 h, WB cure *)
(* between 24 h and 36 h, one week.  What the scenario leaves open keeps   *)
(* the defaults of __init__ (13 equal cure weights, app.py 71-75; cleaning *)
(* of 1 h, app.py 77-81) or ranges over its values (policy, stop at        *)
(* target, cleaning enabled).  The draws include 19/20, so that the last   *)
(* of the 13 one-hour cure buckets is drawn.                               *)
ScenarioAInit ==
    /\ stream \in [1..StreamLen -> Draws \cup {19}]
    /\ \/ /\ cfg \in {[c EXCEPT !.FORM_TIME = 6 * HOUR,
                                 !.CUT_TIME = 8 * HOUR,
                                 !.WB_COOK_TIMES = <<10 * HOUR>>,
                                 !.WB_COOK_WEIGHTS = <<1>>,
                                 !.BB_COOK_TIMES = <<10 * HOUR>>,
                                 !.BB_COOK_WEIGHTS = <<1>>,
                                 !.CURE_WB_MIN = 24 * HOUR,
                                 !.CURE_WB_MAX = 36 * HOUR,
                                 !.CURE_WEIGHTS = [i \in 1..13 |-> 1],
                                 !.WB_SHEETS = 3,
                                 !.BB_SHEETS = 2,
                                 !.TOTAL_HOURS = 168 * HOUR] :
                        c \in {d \in Configs : /\ d.TEAM_CONFIG = "1team"
                                               /\ d.NUM_OVEN_SETS = 1}}
          /\ InitRun
       \/ /\ cfg \in {[c EXCEPT !.FORM_TIME = 6 * HOUR,
                                 !.CUT_TIME = 8 * HOUR,
                                 !.COOK_TIME = 10 * HOUR,
                                 !.CURE_WB_MIN = 24 * HOUR,
                                 !.CURE_WB_MAX = 36 * HOUR,
                                 !.WB_SHEETS = 3,
                                 !.BB_SHEETS = 2,
                                 !.TOTAL_HOURS = 168 * HOUR] :
                        c \in {d \in PCConfigs : /\ d.TEAM_CONFIG = "1team"
                                                 /\ d.NUM_OVEN_SETS = 1}}
          /\ PCInitRun

SpecScenarioA == ScenarioAInit /\ [][NextBoth]_vars

(* Fair runs.  simulate() is one sequential loop: every statement of the   *)
(* body runs to its end and the loop is re-entered while time <            *)
(* TOTAL_HOURS, so a step that can be taken is taken: weak fairness of     *)
(* Next.  The fair runs start from every crew / oven / stop_at_target /    *)
(* cleaning combination under three of the policies, with the two          *)
(* alternating draw streams.                                               *)
LiveStrategies == {"ratio_batches", "bb_first", "wb_until_done"}

LiveStreams ==
    {[i \in 1..StreamLen |-> IF i % 2 = 1 THEN 0 ELSE 15],
     [i \in 1..StreamLen |-> IF i % 2 = 1 THEN 15 ELSE 0]}

LiveInit ==
    /\ cfg \in {c \in Configs : c.PRIORITY_STRATEGY \in LiveStrategies}
    /\ stream \in LiveStreams
    /\ InitRun

LiveSpec == LiveInit /\ [][Next]_vars /\ WF_vars(Next)

(* Runs over a range of targets and per-batch yields (wb_target,           *)
(* bb_target, the yields scaled by num_ovens: app.py 52-53, 93-98), zero   *)
(* targets included, of app.py and of product_config.py (lines 52-53,     *)
(* 106-111 there), together with the runs of LiveInit.                     *)
TargetsInit ==
    \/ LiveInit
    \/ /\ cfg \in {[c EXCEPT !.WB_TARGET = t[1], !.BB_TARGET = t[2],
                              !.WB_PER_BATCH = t[3], !.BB_PER_BATCH = t[4]] :
                      c \in {d \in Configs : ~d.CLEANING_ENABLED},
                      t \in {<<0, 12, 3, 6>>, <<6, 0, 3, 6>>, <<0, 0, 3, 6>>,
                             <<3, 6, 3, 6>>, <<5, 12, 2, 5>>, <<9, 8, 4, 3>>}}
       /\ stream \in LiveStreams
       /\ InitRun
    \/ /\ cfg \in {[c EXCEPT !.WB_TARGET = t[1], !.BB_TARGET = t[2],
                              !.WB_PER_BATCH = t[3], !.BB_PER_BATCH = t[4]] :
                      c \in PCConfigs,
                      t \in {<<0, 12, 3, 6>>, <<6, 0, 3, 6>>, <<0, 0, 3, 6>>,
                             <<3, 6, 3, 6>>, <<5, 12, 2, 5>>, <<9, 8, 4, 3>>}}
       /\ stream \in LiveStreams
       /\ PCInitRun

SpecTargets == TargetsInit /\ [][NextBoth]_vars

-----------------------------------------------------------------------------
(* The Monte Carlo harness (run_monte_carlo: app.py 971-975,               *)
(* product_config.py 937-941).  When simulate() has returned, its result   *)
(* is appended to results and the next ProductionSimulator is constructed  *)
(* and simulated: every field of the object and every local of simulate()  *)
(* starts afresh.  The draws come from the generator of the random module, *)
(* which is the one generator of the process: the next run goes on from    *)
(* the position at which the previous run left it, unless a gantt_image    *)
(* request has called random.seed in between (app.py 1407-1411), which     *)
(* puts the generator back to the start of the seeded stream.              *)
NextRun ==
    /\ pc = "done"
    /\ Len(results) < MonteCarloRuns
    /\ results' = Append(results,
                      [config |-> cfg, stream |-> stream,
                       total_wb |-> total_wb, total_bb |-> total_bb,
                       wb_batches |-> wb_batches_formed,
                       bb_batches |-> bb_batches_formed])
    /\ IF Len(results) + 1 < MonteCarloRuns
       THEN /\ \E seeded \in (IF IsPC THEN {FALSE} ELSE BOOLEAN) :
                  rng' = IF seeded THEN 1 ELSE rng
            /\ time' = 0
            /\ pc' = "start"
            /\ batch_id' = 0
            /\ batches' = <<>>
            /\ all_batches' = <<>>
            /\ total_wb' = 0 /\ total_bb' = 0
            /\ wb_batches_formed' = 0 /\ bb_batches_formed' = 0
            /\ team1_free' = 0 /\ team2_free' = 0
            /\ oven1_free' = 0
            /\ oven2_free' = IF IsPC /\ cfg.NUM_OVEN_SETS # 2 THEN Inf ELSE 0
            /\ form_area_free' = 0
            /\ last_form_clean_time' = -CLEAN_DUE
            /\ last_oven1_clean_time' = -CLEAN_DUE
            /\ last_oven2_clean_time' = -CLEAN_DUE
            /\ cleaning_events' = <<>>
            /\ being_cut' = {}
            /\ sheets_claimed_wb' = 0 /\ sheets_claimed_bb' = 0
            /\ needs' = NoNeeds
            /\ stalls' = 0
       ELSE UNCHANGED <<rng, pc, time, batch_id, batches, all_batches,
                        total_wb, total_bb, wb_batches_formed,
                        bb_batches_formed, team1_free, team2_free, oven1_free,
                        oven2_free, form_area_free, cleanVars,
                        being_cut, sheets_claimed_wb, sheets_claimed_bb,
                        needs, stalls>>
    /\ UNCHANGED <<cfg, stream>>

SpecMonteCarlo == (LiveInit \/ PCInit) /\ [][NextBoth \/ NextRun]_vars

-----------------------------------------------------------------------------
(* __init__ keeping every weight table as it was supplied.                 *)
ProductionSimulator_init_keeps ==
    /\ pc = "init"
    /\ pc' = IF 0 < cfg.TOTAL_HOURS THEN "start" ELSE "done"
    /\ UNCHANGED <<cfg, stream, rng, time, batch_id, batches, all_batches,
                   total_wb, total_bb, wb_batches_formed, bb_batches_formed,
                   team1_free, team2_free, oven1_free, oven2_free,
                   form_area_free, cleanVars, being_cut, sheets_claimed_wb,
                   sheets_claimed_bb, needs, stalls, results>>

(* Construction (ProductionSimulator.__init__, app.py 41-115).  Before it  *)
(* cfg holds the values of the config argument (or their defaults); after  *)
(* it cfg holds the fields of the object.  A weight table is kept if it    *)
(* has the length of its table of times or hours and is replaced by a      *)
(* table of 1.0 otherwise (60-63, 70-75, 83-88); no other value of the     *)
(* configuration is examined, and simulate() can be called.                *)
ProductionSimulator_init ==
    /\ pc = "init"
    /\ LET Ones(n) == [i \in 1..Max2(0, n) |-> 1]
           int(d) == IF d >= 0 THEN d \div HOUR ELSE -((-d) \div HOUR)
           cure_range == int(cfg.CURE_WB_MAX - cfg.CURE_WB_MIN) + 1
           oven_clean_range == int(cfg.OVEN_CLEAN_MAX - cfg.OVEN_CLEAN_MIN) + 1
       IN  cfg' = [cfg EXCEPT
                     !.WB_COOK_WEIGHTS =
                         IF Len(@) # Len(cfg.WB_COOK_TIMES)
                         THEN Ones(Len(cfg.WB_COOK_TIMES)) ELSE @,
                     !.BB_COOK_WEIGHTS =
                         IF Len(@) # Len(cfg.BB_COOK_TIMES)
                         THEN Ones(Len(cfg.BB_COOK_TIMES)) ELSE @,
                     !.CURE_WEIGHTS =
                         IF Len(@) # cure_range THEN Ones(cure_range) ELSE @,
                     !.OVEN_CLEAN_WEIGHTS =
                         IF Len(@) # oven_clean_range
                         THEN Ones(Max2(1, oven_clean_range)) ELSE @]
    /\ pc' = IF 0 < cfg.TOTAL_HOURS THEN "start" ELSE "done"
    /\ UNCHANGED <<stream, rng, time, batch_id, batches, all_batches,
                   total_wb, total_bb, wb_batches_formed, bb_batches_formed,
                   team1_free, team2_free, oven1_free, oven2_free,
                   form_area_free, cleanVars, being_cut, sheets_claimed_wb,
                   sheets_claimed_bb, needs, stalls, results>>

(* The config arguments: the configurations of LiveInit as they are, and   *)
(* configurations with one entry changed: a weight table that is too       *)
(* short, too long, of the right length or of sum zero; an oven cleaning   *)
(* that takes between one and two hours; a negative number of sheets; a    *)
(* forming, cutting or cook time of zero.                                  *)
ConstructInit ==
    /\ \/ cfg \in {c \in Configs : c.PRIORITY_STRATEGY \in LiveStrategies}
       \/ \E c \in {d \in Configs : /\ d.PRIORITY_STRATEGY = "ratio_batches"
                                   /\ ~d.STOP_AT_TARGET} :
          \E o \in {[c EXCEPT !.OVEN_CLEAN_MAX = 2 * HOUR,
                              !.OVEN_CLEAN_WEIGHTS = <<1, 1>>]} :
             cfg \in {[c EXCEPT !.WB_COOK_WEIGHTS = w] :
                        w \in {<<>>, <<1>>, <<1, 2, 3>>, <<3, 1>>, <<0, 0>>}}
                \cup {[c EXCEPT !.BB_COOK_WEIGHTS = w] :
                        w \in {<<>>, <<1, 1>>, <<0>>}}
                \cup {[c EXCEPT !.CURE_WEIGHTS = w] :
                        w \in {<<>>, <<1>>, <<1, 2, 3>>, <<1, 3>>, <<0, 0>>}}
                \cup {[o EXCEPT !.OVEN_CLEAN_WEIGHTS = w] :
                        w \in {<<>>, <<1>>, <<2, 1>>, <<1, 3, 1>>, <<0, 0>>}}
                \cup {[c EXCEPT !.WB_SHEETS = -1], [c EXCEPT !.BB_SHEETS = -1],
                      [c EXCEPT !.FORM_TIME = 0], [c EXCEPT !.CUT_TIME = 0],
                      [c EXCEPT !.BB_COOK_TIMES = <<0>>]}
    /\ stream \in LiveStreams
    /\ pc = "init"
    /\ rng = 1
    /\ time = 0
    /\ batch_id = 0
    /\ batches = <<>>
    /\ all_batches = <<>>
    /\ total_wb = 0 /\ total_bb = 0
    /\ wb_batches_formed = 0 /\ bb_batches_formed = 0
    /\ team1_free = 0 /\ team2_free = 0
    /\ oven1_free = 0 /\ oven2_free = 0
    /\ form_area_free = 0
    /\ last_form_clean_time = -CLEAN_DUE
    /\ last_oven1_clean_time = -CLEAN_DUE
    /\ last_oven2_clean_time = -CLEAN_DUE
    /\ cleaning_events = <<>>
    /\ being_cut = {}
    /\ sheets_claimed_wb = 0 /\ sheets_claimed_bb = 0
    /\ needs = NoNeeds
    /\ stalls = 0
    /\ results = <<>>

SpecConstruct == ConstructInit /\ [][ProductionSimulator_init \/ Next]_vars

-----------------------------------------------------------------------------
(* Properties.                                                             *)

BatchIdx == 1..Len(all_batches)

InFlight(product) ==
    {i \in BatchIdx :
        /\ all_batches[i].product = product
        /\ (all_batches[i].cut_end = None \/ all_batches[i].cut_end > time)}

Overlap(s1, e1, s2, e2) == s1 < e2 /\ s2 < e1

(* C1: at every state the number of WB batches formed and not yet finished *)
(* cutting (cut_end unset or cut_end > now) is at most WB_SHEETS, and the  *)
(* number of such BB batches is at most BB_SHEETS.                         *)
C1_SheetCapacity ==
    /\ Cardinality(InFlight("WB")) <= cfg.WB_SHEETS
    /\ Cardinality(InFlight("BB")) <= cfg.BB_SHEETS

(* both crews are enabled, every sheet of both products is in use and a   *)
(* free crew has just taken its decision                                   *)
C1_Witness ==
    /\ cfg.TEAM_CONFIG = "2team_24/7"
    /\ Cardinality(InFlight("WB")) = cfg.WB_SHEETS
    /\ Cardinality(InFlight("BB")) = cfg.BB_SHEETS
    /\ pc = "clock"
    /\ team2_free > time
    /\ all_batches[Len(all_batches)].form_start < time

PartlyCutBB ==
    {i \in BatchIdx :
        /\ all_batches[i].product = "BB"
        /\ 0 < all_batches[i].cut_progress
        /\ all_batches[i].cut_progress < cfg.CUT_TIME}

(* C2: at every state at most one BB batch has                             *)
(* 0 < cut_progress < CUT_TIME.                                            *)
C2_OnePartlyCutBB == Cardinality(PartlyCutBB) <= 1

(* one BB batch is partly cut while another BB batch is cured and uncut    *)
C2_Witness ==
    /\ Cardinality(PartlyCutBB) = 1
    /\ \E i \in BatchIdx :
          /\ all_batches[i].product = "BB"
          /\ all_batches[i].cut_progress = 0
          /\ all_batches[i].cure_end <= time

(* C3: the recorded cut sessions of two different BB batches never overlap *)
(* in simulated time.                                                      *)
C3_BBSessionsDisjoint ==
    \A i, j \in BatchIdx :
        (i # j /\ all_batches[i].product = "BB" /\ all_batches[j].product = "BB")
        => \A m \in 1..Len(all_batches[i].cut_sessions),
              n \in 1..Len(all_batches[j].cut_sessions) :
              ~Overlap(all_batches[i].cut_sessions[m][1],
                       all_batches[i].cut_sessions[m][2],
                       all_batches[j].cut_sessions[n][1],
                       all_batches[j].cut_sessions[n][2])

CookTimesOf(product) ==
    IF product = "WB" THEN cfg.WB_COOK_TIMES ELSE cfg.BB_COOK_TIMES

(* C4: for every batch ever formed form_end = form_start + FORM_TIME,      *)
(* cook_start = form_end, cook_end = cook_start + sampled cook time,       *)
(* cure_start = cook_end, cure_end = cure_start + cure_time (0 for BB),    *)
(* cure_end <= cut_start <= cut_end once set, and no cutting interval      *)
(* starts before cure_end.                                                 *)
C4_StageTimestamps ==
    \A i \in BatchIdx :
        LET b == all_batches[i]
        IN  /\ b.form_end = b.form_start + cfg.FORM_TIME
            /\ b.cook_start = b.form_end
            /\ b.cook_end = b.cook_start + b.cook_time
            /\ \E k \in 1..Len(CookTimesOf(b.product)) :
                  b.cook_time = CookTimesOf(b.product)[k]
            /\ b.cure_start = b.cook_end
            /\ b.cure_end = b.cure_start + b.cure_time
            /\ (b.product = "BB" => b.cure_time = 0)
            /\ (b.cut_start # None => b.cure_end <= b.cut_start)
            /\ (b.cut_end # None => b.cut_start # None /\ b.cut_start <= b.cut_end)
            /\ (b.cut_start = None => b.cut_end = None /\ b.cut_sessions = <<>>)
            /\ \A m \in 1..Len(b.cut_sessions) : b.cure_end <= b.cut_sessions[m][1]

(* a WB batch with a positive cure time and a BB batch have both been cut  *)
(* to the end                                                              *)
C4_Witness ==
    /\ \E i \in BatchIdx :
          /\ all_batches[i].product = "WB"
          /\ all_batches[i].cure_time > 0
          /\ all_batches[i].cut_end # None
    /\ \E i \in BatchIdx :
          /\ all_batches[i].product = "BB"
          /\ all_batches[i].cut_end # None
          /\ Len(all_batches[i].cut_sessions) > 1

(* C5: cut_progress of a batch only increases and never exceeds CUT_TIME;  *)
(* cut_end is set exactly in the step that brings cut_progress to at       *)
(* least CUT_TIME - 0.01 h, and from then on neither cut_end nor           *)
(* cut_progress of that batch changes.                                     *)
C5_CutProgress ==
    [][ \A i \in BatchIdx :
          LET b == all_batches[i]
              c == all_batches'[i]
          IN  /\ c.cut_progress >= b.cut_progress
              /\ c.cut_progress <= cfg.CUT_TIME
              /\ (b.cut_end # None =>
                     c.cut_end = b.cut_end /\ c.cut_progress = b.cut_progress)
              /\ (b.cut_end = None /\ c.cut_end # None =>
                     /\ 5 * b.cut_progress < 5 * cfg.CUT_TIME - 1
                     /\ 5 * c.cut_progress >= 5 * cfg.CUT_TIME - 1)
              /\ (c.cut_end = None => 5 * c.cut_progress < 5 * cfg.CUT_TIME - 1)
      ]_vars

(* a batch was cut in several sessions and its cut_end is set while it is  *)
(* still in the active list                                                *)
C5_Witness ==
    \E i \in 1..Len(batches) :
        /\ B(batches[i]).cut_end # None
        /\ B(batches[i]).cut_end > time
        /\ Len(B(batches[i]).cut_sessions) > 1
        /\ pc = "team1"

FormCleanings ==
    {k \in 1..Len(cleaning_events) : cleaning_events[k].type = "form_clean"}

(* C6: the forming intervals [form_start, form_end) of all batches and all *)
(* form-area cleaning intervals are pairwise non-overlapping.              *)
C6_FormAreaExclusive ==
    /\ \A i, j \in BatchIdx :
          i # j => ~Overlap(all_batches[i].form_start, all_batches[i].form_end,
                            all_batches[j].form_start, all_batches[j].form_end)
    /\ \A i \in BatchIdx, k \in FormCleanings :
          ~Overlap(all_batches[i].form_start, all_batches[i].form_end,
                   cleaning_events[k].start, cleaning_events[k].end)
    /\ \A k, l \in FormCleanings :
          k # l => ~Overlap(cleaning_events[k].start, cleaning_events[k].end,
                            cleaning_events[l].start, cleaning_events[l].end)

OvenCleanings(oven_num) ==
    {k \in 1..Len(cleaning_events) :
        /\ cleaning_events[k].type = "oven_clean"
        /\ cleaning_events[k].oven_set = oven_num}

(* C7: for every oven set the cook intervals [cook_start, cook_end) of the *)
(* batches assigned to it and that set's cleaning intervals are pairwise   *)
(* non-overlapping.                                                        *)
C7_OvenExclusive ==
    \A o \in {1, 2} :
        /\ \A i, j \in BatchIdx :
              (i # j /\ all_batches[i].oven_set = o /\ all_batches[j].oven_set = o)
              => ~Overlap(all_batches[i].cook_start, all_batches[i].cook_end,
                          all_batches[j].cook_start, all_batches[j].cook_end)
        /\ \A i \in BatchIdx, k \in OvenCleanings(o) :
              all_batches[i].oven_set = o
              => ~Overlap(all_batches[i].cook_start, all_batches[i].cook_end,
                          cleaning_events[k].start, cleaning_events[k].end)
        /\ \A k, l \in OvenCleanings(o) :
              k # l => ~Overlap(cleaning_events[k].start, cleaning_events[k].end,
                                cleaning_events[l].start, cleaning_events[l].end)

(* both oven sets have cooked two batches each and have been cleaned twice *)
C7_Witness ==
    \A o \in {1, 2} :
        /\ Cardinality({i \in BatchIdx : all_batches[i].oven_set = o
                                          /\ all_batches[i].cook_end <= time}) >= 2
        /\ Cardinality(OvenCleanings(o)) >= 2

(* C8: every run terminates, with the clock exactly at TOTAL_HOURS: the    *)
(* clock never passes the horizon and the run never stops before it.       *)
C8_RunsToHorizon ==
    /\ [](time <= cfg.TOTAL_HOURS)
    /\ [](pc = "done" <=> time = cfg.TOTAL_HOURS)
    /\ <>(pc = "done")

(* a run with stop_at_target has ended after both targets were reached     *)
C8_Witness ==
    /\ pc = "done"
    /\ cfg.STOP_AT_TARGET
    /\ total_wb >= cfg.WB_TARGET
    /\ total_bb >= cfg.BB_TARGET

ClockCandidates ==
    {cfg.TOTAL_HOURS, team1_free, oven1_free, oven1_free - cfg.FORM_TIME}
      \cup (IF IsPC THEN {} ELSE {form_area_free})
      \cup (IF cfg.NUM_OVEN_SETS = 2
            THEN {oven2_free, oven2_free - cfg.FORM_TIME} ELSE {})
      \cup (IF cfg.TEAM_CONFIG # "1team" THEN {team2_free} ELSE {})
      \cup (IF cfg.TEAM_CONFIG = "2team_6-6"
            THEN {t \in (time + 1)..(time + DAY) :
                    HourOfDay(t) \in {cfg.TEAM2_START, cfg.TEAM2_END}}
            ELSE {})
      \cup {all_batches[i].cure_end : i \in {j \in BatchIdx :
               all_batches[j].cut_end = None}}

(* C9: in every iteration the clock moves to the least candidate event     *)
(* time strictly greater than now, so time strictly increases and the      *)
(* 0.1 h fallback is never taken.                                          *)
C9_ClockAdvance ==
    [][ pc = "clock" =>
          /\ time' > time
          /\ time' \in ClockCandidates
          /\ \A e \in ClockCandidates : ~(time < e /\ e < time')
          /\ stalls' = 0
      ]_vars

(* the clock has stopped at a cure end, at a lead time of an oven and at a *)
(* shift boundary of crew 2                                                *)
C9_Witness ==
    /\ pc = "start"
    /\ cfg.TEAM_CONFIG = "2team_6-6"
    /\ HourOfDay(time) = cfg.TEAM2_END
    /\ time # team1_free
    /\ \E i \in BatchIdx : all_batches[i].cure_end < time

(* C11: total_wb is WB_PER_BATCH times the number of WB batches whose      *)
(* cut_end has been set, total_bb is BB_PER_BATCH times the number of such *)
(* BB batches, and neither total ever decreases.                           *)
C11_TotalsCountFinished ==
    /\ [](LET FinishedOf(product) ==
                  {i \in BatchIdx : all_batches[i].product = product
                                    /\ all_batches[i].cut_end # None}
          IN  /\ total_wb = cfg.WB_PER_BATCH * Cardinality(FinishedOf("WB"))
              /\ total_bb = cfg.BB_PER_BATCH * Cardinality(FinishedOf("BB")))
    /\ [][total_wb' >= total_wb /\ total_bb' >= total_bb]_vars

(* both products have finished batches and a further batch is partly cut   *)
C11_Witness ==
    /\ total_wb >= 2 * cfg.WB_PER_BATCH
    /\ total_bb >= cfg.BB_PER_BATCH
    /\ \E i \in BatchIdx : /\ all_batches[i].cut_progress > 0
                           /\ all_batches[i].cut_end = None

(* C12: whenever a cleaning starts, the resource is free at that instant   *)
(* and at least 24 h have passed since every earlier cleaning start of the *)
(* same resource.                                                          *)
C12_CleaningDue ==
    [][Len(cleaning_events') > Len(cleaning_events) =>
        LET e == Last(cleaning_events')
        IN  /\ Len(cleaning_events') = Len(cleaning_events) + 1
            /\ e.start = time
            /\ IF e.type = "form_clean" THEN form_area_free <= time
               ELSE OvenFree(e.oven_set) <= time
            /\ \A k \in 1..Len(cleaning_events) :
                  (cleaning_events[k].type = e.type
                   /\ cleaning_events[k].oven_set = e.oven_set)
                  => e.start - cleaning_events[k].start >= CLEAN_DUE]_vars

(* crew 2 has cleaned the form area a second time, a day after crew 1, and *)
(* both oven sets have been cleaned twice                                   *)
C12_Witness ==
    /\ \E k, l \in FormCleanings :
          /\ k < l
          /\ cleaning_events[k].team = 1
          /\ cleaning_events[l].team = 2
    /\ Cardinality(OvenCleanings(1)) >= 2
    /\ Cardinality(OvenCleanings(2)) >= 2

(* C13: in day-shift mode crew 2 forms no batch, cleans nothing, and every *)
(* cut session recorded for crew 2 lies within one shift window            *)
(* [TEAM2_START, TEAM2_END) of a 24 h day.                                 *)
C13_DayShiftCrew2 ==
    cfg.TEAM_CONFIG = "2team_6-6" =>
        /\ \A i \in BatchIdx : all_batches[i].formed_by # 2
        /\ \A k \in 1..Len(cleaning_events) : cleaning_events[k].team # 2
        /\ \A i \in BatchIdx :
              \A m \in 1..Len(all_batches[i].cut_sessions) :
                 LET s == all_batches[i].cut_sessions[m]
                 IN  s[3] = 2 =>
                        /\ s[1] < s[2]
                        /\ cfg.TEAM2_START <= HourOfDay(s[1])
                        /\ HourOfDay(s[1]) + (s[2] - s[1]) <= cfg.TEAM2_END

(* crew 2 has cut up to the very end of its shift and left the batch       *)
(* unfinished, and has also finished a batch                               *)
C13_Witness ==
    /\ cfg.TEAM_CONFIG = "2team_6-6"
    /\ \E i \in BatchIdx :
          \E m \in 1..Len(all_batches[i].cut_sessions) :
             /\ all_batches[i].cut_sessions[m][3] = 2
             /\ HourOfDay(all_batches[i].cut_sessions[m][2]) = cfg.TEAM2_END
             /\ all_batches[i].cut_progress < cfg.CUT_TIME
    /\ \E i \in BatchIdx :
          /\ all_batches[i].cut_end # None
          /\ Last(all_batches[i].cut_sessions)[3] = 2

(* C14: with stop_at_target, no batch of a product is formed at a time at  *)
(* which that product's total has already reached its target.              *)
C14_NoFormingPastTarget ==
    [][cfg.STOP_AT_TARGET =>
         /\ wb_batches_formed' > wb_batches_formed => total_wb < cfg.WB_TARGET
         /\ bb_batches_formed' > bb_batches_formed => total_bb < cfg.BB_TARGET
         /\ Len(all_batches') > Len(all_batches) =>
               IF Last(all_batches').product = "WB"
               THEN wb_batches_formed' > wb_batches_formed
               ELSE bb_batches_formed' > bb_batches_formed]_vars

(* with stop_at_target, a WB batch that was in flight when the WB target   *)
(* was reached has been cut to completion afterwards, and forming of BB    *)
(* still goes on                                                           *)
C14_Witness ==
    /\ cfg.STOP_AT_TARGET
    /\ total_wb > cfg.WB_TARGET
    /\ total_bb < cfg.BB_TARGET
    /\ \E i \in BatchIdx : /\ all_batches[i].product = "BB"
                           /\ all_batches[i].form_end > time

-----------------------------------------------------------------------------
(* C15: in Scenario A the first batch formed has form_end = 6.0 and        *)
(* cook_end = 16.0, and if it is a WB batch its cure_end lies in [40, 52]. *)
(* Batch.__init__ and form() fix the three timestamps when the batch is    *)
(* created, so the statement is about all_batches[1] from then on.         *)
C15_ScenarioA ==
    Len(all_batches) >= 1 =>
        /\ all_batches[1].form_end = 6 * HOUR
        /\ all_batches[1].cook_end = 16 * HOUR
        /\ all_batches[1].product = "WB" =>
               /\ 40 * HOUR <= all_batches[1].cure_end
               /\ all_batches[1].cure_end <= 52 * HOUR

(* The same statement for the runs of product_config.py alone, for the     *)
(* runs of app.py with cleaning disabled, and the two timestamps alone.    *)
C15_ScenarioA_product_config == IsPC => C15_ScenarioA

C15_ScenarioA_no_cleaning ==
    (~IsPC /\ ~cfg.CLEANING_ENABLED) => C15_ScenarioA

C15_ScenarioA_no_cleaning_form_cook ==
    (~IsPC /\ ~cfg.CLEANING_ENABLED /\ Len(all_batches) >= 1) =>
        /\ all_batches[1].form_end = 6 * HOUR
        /\ all_batches[1].cook_end = 16 * HOUR

C15_FirstBatchFormed ==
    /\ Len(all_batches) >= 1
    /\ all_batches[1].product = "WB"
    /\ time >= all_batches[1].cure_end

-----------------------------------------------------------------------------
(* C16: under wb_until_done the policy prefers WB exactly while            *)
(* total_wb < WB_TARGET; once it has answered "prefer BB" it answers       *)
(* "prefer BB" for the rest of the run; with WB_TARGET = 0 it prefers BB   *)
(* from the first dispatch on.                                             *)
C16_WbUntilDone ==
    /\ [](cfg.PRIORITY_STRATEGY = "wb_until_done" =>
            /\ get_priority <=> total_wb < cfg.WB_TARGET
            /\ cfg.WB_TARGET = 0 => ~get_priority)
    /\ [][(cfg.PRIORITY_STRATEGY = "wb_until_done" /\ ~get_priority)
             => ~get_priority']_vars

(* A run with WB_TARGET = 0 whose first batch is BB, and a run that has    *)
(* switched to BB after reaching a positive WB target.                     *)
C16_Witness_ZeroTarget ==
    /\ cfg.PRIORITY_STRATEGY = "wb_until_done"
    /\ cfg.WB_TARGET = 0
    /\ ~cfg.STOP_AT_TARGET
    /\ Len(all_batches) >= 2
    /\ all_batches[1].product = "BB"
    /\ all_batches[1].cut_end # None

C16_Witness ==
    /\ cfg.PRIORITY_STRATEGY = "wb_until_done"
    /\ cfg.WB_TARGET > 0
    /\ total_wb >= cfg.WB_TARGET
    /\ Len(all_batches) >= 3
    /\ all_batches[1].product = "WB"
    /\ all_batches[Len(all_batches)].product = "BB"
    /\ all_batches[Len(all_batches)].form_start >= 0
    /\ \E i \in 1..Len(all_batches) :
          /\ all_batches[i].product = "WB"
          /\ all_batches[i].cut_end # None
          /\ all_batches[i].cut_end <= all_batches[Len(all_batches)].form_start

-----------------------------------------------------------------------------
C17_Witness_balanced_goal ==
    /\ cfg.PRIORITY_STRATEGY = "balanced_goal"
    /\ cfg.WB_TARGET > 0 /\ cfg.BB_TARGET > 0
    /\ total_wb + curing_wb * cfg.WB_PER_BATCH >= cfg.WB_TARGET
    /\ total_wb < cfg.WB_TARGET
    /\ total_bb >= cfg.BB_TARGET
    /\ ~get_priority

C17_Witness_product_config ==
    /\ IsPC
    /\ cfg.PRIORITY_STRATEGY = "cure_aware"
    /\ curing_wb >= 2
    /\ total_wb > 0 /\ total_bb > 0
    /\ ~get_priority

-----------------------------------------------------------------------------
(* C18: when crew 2 takes its forming decision after crew 1 has acted in   *)
(* the same wake round, it is blocked from forming a product P exactly     *)
(* when SHEETS(P) minus the number of active P batches (crew 1's batch of  *)
(* this round included, once) is not positive: it forms the product the    *)
(* policy prefers if and only if that product has a free sheet, and the    *)
(* other product if and only if the preferred one has none and the other   *)
(* one has.  The active count is the one of section 4.5 (saturated once    *)
(* stop_at_target has met the target, app.py 334-346).                     *)
C18_Crew2SheetCheck ==
    [][LET almost(id) == /\ cfg.CUT_TIME - B(id).cut_progress < HOUR
                         /\ B(id).cut_progress > 0
                         /\ B(id).cut_by = 2
           AtFormDecision ==
               /\ pc = "team2"
               /\ IF IsPC
                  THEN /\ pc_team2_enabled /\ pc_team2_on(time)
                       /\ team2_free <= time
                       /\ SelectSeq(pc_ready_to_cut(being_cut, 2), almost) = <<>>
                       /\ time >= (IF cfg.NUM_OVEN_SETS = 2 THEN oven2_free
                                   ELSE oven1_free) - cfg.FORM_TIME
                       /\ team2_shift_end(time) # Inf =>
                             team2_shift_end(time) - time >= cfg.FORM_TIME
                  ELSE T2Branch = "form"
           Free(P) == IF P = "WB"
                      THEN cfg.WB_SHEETS - (IF IsPC THEN pc_active_wb ELSE active_wb)
                      ELSE cfg.BB_SHEETS - (IF IsPC THEN pc_active_bb ELSE active_bb)
           Formed(P) == /\ Len(all_batches') = Len(all_batches) + 1
                        /\ all_batches'[Len(all_batches')].product = P
                        /\ all_batches'[Len(all_batches')].formed_by = 2
           preferred == IF get_priority THEN "WB" ELSE "BB"
           other == IF get_priority THEN "BB" ELSE "WB"
       IN  AtFormDecision =>
               /\ Formed(preferred) <=> Free(preferred) > 0
               /\ Formed(other) <=> (Free(preferred) <= 0 /\ Free(other) > 0)]_vars

(* The same statement for app.py alone.                                    *)
C18_Crew2SheetCheck_app ==
    [][LET Free(P) == IF P = "WB" THEN cfg.WB_SHEETS - active_wb
                      ELSE cfg.BB_SHEETS - active_bb
           Formed(P) == /\ Len(all_batches') = Len(all_batches) + 1
                        /\ all_batches'[Len(all_batches')].product = P
                        /\ all_batches'[Len(all_batches')].formed_by = 2
           preferred == IF get_priority THEN "WB" ELSE "BB"
           other == IF get_priority THEN "BB" ELSE "WB"
       IN  (~IsPC /\ pc = "team2" /\ T2Branch = "form") =>
               /\ Formed(preferred) <=> Free(preferred) > 0
               /\ Formed(other) <=> (Free(preferred) <= 0 /\ Free(other) > 0)]_vars

(* Crew 2 has formed a batch in the round in which crew 1 formed one       *)
(* (product_config.py), the two of different products.                     *)
C18_BothFormedInRound ==
    /\ pc = "clock"
    /\ Len(all_batches) >= 2
    /\ all_batches[Len(all_batches)].form_start = time
    /\ all_batches[Len(all_batches)].formed_by = 2
    /\ all_batches[Len(all_batches) - 1].form_start = time
    /\ all_batches[Len(all_batches) - 1].formed_by = 1
    /\ all_batches[Len(all_batches)].product
          # all_batches[Len(all_batches) - 1].product

-----------------------------------------------------------------------------
(* C19: a batch is never worked by two crews at once.  The cut sessions    *)
(* recorded for one batch follow each other without overlap, and a crew    *)
(* that starts a session on a batch does so on a batch that is not in      *)
(* being_cut and whose earlier sessions, of either crew, have all ended.   *)
C19_OneCrewPerBatch ==
    /\ [](\A i \in BatchIdx :
            \A m, n \in 1..Len(all_batches[i].cut_sessions) :
                m < n => /\ all_batches[i].cut_sessions[m][1]
                              <= all_batches[i].cut_sessions[m][2]
                         /\ all_batches[i].cut_sessions[m][2]
                              <= all_batches[i].cut_sessions[n][1])
    /\ [][\A i \in BatchIdx :
            Len(all_batches'[i].cut_sessions) > Len(all_batches[i].cut_sessions)
            => /\ all_batches[i].id \notin being_cut
               /\ all_batches[i].id \in being_cut'
               /\ Last(all_batches'[i].cut_sessions)[1] = time
               /\ Last(all_batches'[i].cut_sessions)[3] = (IF pc = "team1" THEN 1 ELSE 2)
               /\ \A m \in 1..Len(all_batches[i].cut_sessions) :
                     all_batches[i].cut_sessions[m][2] <= time]_vars

(* A batch cut in two sessions by the two crews, the second session        *)
(* starting at the very time the first one ended.                          *)
C19_Witness ==
    \E i \in BatchIdx :
        /\ Len(all_batches[i].cut_sessions) >= 2
        /\ all_batches[i].cut_sessions[1][3] # all_batches[i].cut_sessions[2][3]
        /\ all_batches[i].cut_sessions[1][2] = all_batches[i].cut_sessions[2][1]
        /\ all_batches[i].cut_sessions[1][1] < all_batches[i].cut_sessions[1][2]

-----------------------------------------------------------------------------
(* C20: the runs of the Monte Carlo harness share no mutable state: the    *)
(* result of a run is a function of the configuration and of the random    *)
(* stream of the run alone, so two runs with the same configuration and    *)
(* the same stream return the same result, however many runs and draws     *)
(* came before each of them and whatever seed another caller has set.      *)
C20_RunsIndependent ==
    \A i, j \in 1..Len(results) :
        (results[i].config = results[j].config
           /\ results[i].stream = results[j].stream)
        => /\ results[i].total_wb = results[j].total_wb
           /\ results[i].total_bb = results[j].total_bb
           /\ results[i].wb_batches = results[j].wb_batches
           /\ results[i].bb_batches = results[j].bb_batches

(* Two runs have returned.                                                 *)
C20_TwoRuns ==
    /\ Len(results) = 2
    /\ results[1].total_wb + results[1].total_bb > 0
    /\ results[2].total_wb + results[2].total_bb > 0

-----------------------------------------------------------------------------
(* C21: construction raises no error and leaves every weight table (WB     *)
(* cook, BB cook, WB cure, oven clean) with the length of its table of     *)
(* times or of whole hours; a supplied table of another length has been    *)
(* replaced by a table of 1.0 of that length.                              *)
C21_WeightTables ==
    /\ [](LET Hours(lo, hi) == ((hi - lo) \div HOUR) + 1
          IN  pc # "init" =>
               /\ Len(cfg.WB_COOK_WEIGHTS) = Len(cfg.WB_COOK_TIMES)
               /\ Len(cfg.BB_COOK_WEIGHTS) = Len(cfg.BB_COOK_TIMES)
               /\ Len(cfg.CURE_WEIGHTS) = Hours(cfg.CURE_WB_MIN, cfg.CURE_WB_MAX)
               /\ Len(cfg.OVEN_CLEAN_WEIGHTS)
                    = Hours(cfg.OVEN_CLEAN_MIN, cfg.OVEN_CLEAN_MAX))
    /\ [][LET Hours(lo, hi) == ((hi - lo) \div HOUR) + 1
              Uniform(w, n) == Len(w) = n /\ \A i \in 1..n : w[i] = 1
          IN  pc = "init" =>
               /\ pc' = "start"
               /\ Len(cfg.WB_COOK_WEIGHTS) # Len(cfg.WB_COOK_TIMES)
                    => Uniform(cfg'.WB_COOK_WEIGHTS, Len(cfg.WB_COOK_TIMES))
               /\ Len(cfg.BB_COOK_WEIGHTS) # Len(cfg.BB_COOK_TIMES)
                    => Uniform(cfg'.BB_COOK_WEIGHTS, Len(cfg.BB_COOK_TIMES))
               /\ Len(cfg.CURE_WEIGHTS) # Hours(cfg.CURE_WB_MIN, cfg.CURE_WB_MAX)
                    => Uniform(cfg'.CURE_WEIGHTS,
                               Hours(cfg.CURE_WB_MIN, cfg.CURE_WB_MAX))
               /\ Len(cfg.OVEN_CLEAN_WEIGHTS)
                      # Hours(cfg.OVEN_CLEAN_MIN, cfg.OVEN_CLEAN_MAX)
                    => Uniform(cfg'.OVEN_CLEAN_WEIGHTS,
                               Hours(cfg.OVEN_CLEAN_MIN, cfg.OVEN_CLEAN_MAX))]_vars

(* A constructed simulator whose oven-clean table of two hours is uniform: *)
(* every supplied table of that length is not (ConstructInit), so the      *)
(* table has been replaced; an oven cleaning has been sampled from it.     *)
C21_Witness ==
    /\ pc # "init"
    /\ cfg.OVEN_CLEAN_MAX = 2 * HOUR
    /\ cfg.OVEN_CLEAN_WEIGHTS = <<1, 1>>
    /\ \E k \in 1..Len(cleaning_events) : cleaning_events[k].type = "oven_clean"

-----------------------------------------------------------------------------
(* C22: a configuration that cannot be normalised (a negative number of    *)
(* WB or BB sheets, a forming, cutting or cook time that is not positive)  *)
(* is rejected by the construction: no step of the simulation is ever      *)
(* executed for it.                                                        *)
C22_ConfigRejected ==
    (\/ cfg.WB_SHEETS < 0 \/ cfg.BB_SHEETS < 0
     \/ cfg.FORM_TIME <= 0 \/ cfg.CUT_TIME <= 0
     \/ \E k \in 1..Len(cfg.WB_COOK_TIMES) : cfg.WB_COOK_TIMES[k] <= 0
     \/ \E k \in 1..Len(cfg.BB_COOK_TIMES) : cfg.BB_COOK_TIMES[k] <= 0)
    => pc = "init"

(* A run with a negative number of WB sheets has reached its horizon and   *)
(* has produced BB blocks.                                                 *)
C22_RunWithNegativeSheets ==
    /\ cfg.WB_SHEETS < 0
    /\ pc = "done"
    /\ total_bb > 0

-----------------------------------------------------------------------------
(* C23: every sampled WB cure time lies within [CURE_WB_MIN, CURE_WB_MAX]  *)
(* and every sampled oven-clean duration within [OVEN_CLEAN_MIN,           *)
(* OVEN_CLEAN_MAX], whatever the weight table.                             *)
C23_SamplesInRange ==
    pc # "init" =>
        /\ \A i \in BatchIdx :
              all_batches[i].product = "WB" =>
                 /\ cfg.CURE_WB_MIN <= all_batches[i].cure_time
                 /\ all_batches[i].cure_time <= cfg.CURE_WB_MAX
        /\ \A k \in 1..Len(cleaning_events) :
              cleaning_events[k].type = "oven_clean" =>
                 /\ cfg.OVEN_CLEAN_MIN
                      <= cleaning_events[k].end - cleaning_events[k].start
                 /\ cleaning_events[k].end - cleaning_events[k].start
                      <= cfg.OVEN_CLEAN_MAX

(* The same statement for the tables of sum zero alone (the samplers then  *)
(* draw uniformly between the two limits), and the lower limits alone.     *)
C23_SamplesInRange_zero_sum ==
    pc # "init" =>
        /\ SumSeq(cfg.CURE_WEIGHTS) = 0 =>
              \A i \in BatchIdx :
                 all_batches[i].product = "WB" =>
                    /\ cfg.CURE_WB_MIN <= all_batches[i].cure_time
                    /\ all_batches[i].cure_time <= cfg.CURE_WB_MAX
        /\ SumSeq(cfg.OVEN_CLEAN_WEIGHTS) = 0 =>
              \A k \in 1..Len(cleaning_events) :
                 cleaning_events[k].type = "oven_clean" =>
                    /\ cfg.OVEN_CLEAN_MIN
                         <= cleaning_events[k].end - cleaning_events[k].start
                    /\ cleaning_events[k].end - cleaning_events[k].start
                         <= cfg.OVEN_CLEAN_MAX

C23_SamplesAboveMin ==
    pc # "init" =>
        /\ \A i \in BatchIdx :
              all_batches[i].product = "WB" =>
                 cfg.CURE_WB_MIN <= all_batches[i].cure_time
        /\ \A k \in 1..Len(cleaning_events) :
              cleaning_events[k].type = "oven_clean" =>
                 cfg.OVEN_CLEAN_MIN
                    <= cleaning_events[k].end - cleaning_events[k].start

(* An oven cleaning longer than OVEN_CLEAN_MAX and a WB cure longer than   *)
(* CURE_WB_MAX in one run.                                                 *)
C23_Overshoot ==
    /\ \E i \in BatchIdx : /\ all_batches[i].product = "WB"
                           /\ all_batches[i].cure_time > cfg.CURE_WB_MAX
    /\ \E k \in 1..Len(cleaning_events) :
          /\ cleaning_events[k].type = "oven_clean"
          /\ cleaning_events[k].end - cleaning_events[k].start > cfg.OVEN_CLEAN_MAX

-----------------------------------------------------------------------------
(* C24: a crew that finds nothing to do wakes no later than the earliest   *)
(* future instant at which it would have work: a cure_end, the end of the  *)
(* other crew's cutting interval, the form area or the oven lead time      *)
(* becoming available, a shift boundary; the horizon only when none of     *)
(* these comes before it.                                                  *)
(* Checked here with the instants the code collects (app.py 777-784,       *)
(* 898-904, 932-937): the horizon, the form area, the oven lead time when  *)
(* a sheet is left, the cure_ends, and the shift end of the day crew.      *)
C24_IdleWake_own_events ==
    [][ LET WorkEvents(team_num) ==
                {cfg.TOTAL_HOURS, form_area_free} \cup CureEnds
                  \cup (IF sheets_available
                        THEN {OvenFree(BestOven(team_num)) - cfg.FORM_TIME}
                        ELSE {})
        IN  /\ (pc = "team1" /\ T1Branch = "idle")
                  => team1_free' <= NextAfter(WorkEvents(1))
            /\ (pc = "team2" /\ T2Branch = "idle")
                  => team2_free' <= NextAfter(WorkEvents(2))
            /\ (pc = "team2" /\ T2Branch = "day_idle")
                  => team2_free' <= NextAfter({cfg.TOTAL_HOURS,
                                               team2_shift_end(time)}
                                                \cup CureEnds) ]_vars

(* The statement seen from the sleeping crew: at no instant the clock      *)
(* visits is a crew asleep after going idle (neither forming, cutting nor  *)
(* cleaning, and not in an urgent wait) while it could form or cut.        *)
C24_NoSleepThroughWork ==
    LET Engaged(team_num) ==
            \/ \E i \in BatchIdx : /\ all_batches[i].formed_by = team_num
                                   /\ all_batches[i].form_end > time
            \/ \E i \in BatchIdx :
                  /\ all_batches[i].cut_sessions # <<>>
                  /\ Last(all_batches[i].cut_sessions)[3] = team_num
                  /\ Last(all_batches[i].cut_sessions)[2] > time
            \/ \E k \in 1..Len(cleaning_events) :
                  /\ cleaning_events[k].team = team_num
                  /\ cleaning_events[k].end > time
    IN  /\ (/\ pc = "team1" /\ team1_free > time /\ ~Engaged(1)
            /\ get_urgent_oven_not_free = None)
              => ~(can_form(1) \/ ready_to_cut(being_cut) # <<>>)
        /\ (/\ pc = "team2" /\ T2Branch = "busy" /\ ~Engaged(2))
              => ~(\/ cfg.TEAM_CONFIG = "2team_24/7" /\ can_form(2)
                   \/ ready_to_cut(being_cut) # <<>>)

(* Crew 2 of the day shift asleep on shift, doing nothing, while a batch   *)
(* that crew 1 has paused is ready to be resumed.                          *)
C24_SleepsThroughWork ==
    /\ pc = "team2" /\ T2Branch = "busy"
    /\ cfg.TEAM_CONFIG = "2team_6-6"
    /\ ~\E i \in BatchIdx :
          /\ all_batches[i].cut_sessions # <<>>
          /\ Last(all_batches[i].cut_sessions)[3] = 2
          /\ Last(all_batches[i].cut_sessions)[2] > time
    /\ ready_to_cut(being_cut) # <<>>
    /\ B(ready_to_cut(being_cut)[1]).cut_progress > 0
    /\ B(ready_to_cut(being_cut)[1]).cut_by = 1

(* A crew asleep until the horizon, three hours or more away, while it     *)
(* could form or cut.                                                      *)
C24_SleepsToHorizon ==
    /\ time + 3 * HOUR <= cfg.TOTAL_HOURS
    /\ \/ /\ pc = "team1" /\ team1_free = cfg.TOTAL_HOURS
          /\ (can_form(1) \/ ready_to_cut(being_cut) # <<>>)
       \/ /\ pc = "team2" /\ team2_enabled /\ team2_on(time)
          /\ team2_free = cfg.TOTAL_HOURS
          /\ (\/ cfg.TEAM_CONFIG = "2team_24/7" /\ can_form(2)
              \/ ready_to_cut(being_cut) # <<>>)

-----------------------------------------------------------------------------
(* C25: with cleaning enabled, a free crew that can clean (crew 1, or crew *)
(* 2 in continuous mode) deciding while the form area is free and 24 h or  *)
(* more past its last clean cleans the form area; and no batch's forming   *)
(* starts when the form area is 24 h or more past its last clean.          *)
C25_FormAreaClean ==
    /\ [](cfg.CLEANING_ENABLED =>
            \A i \in BatchIdx :
               LET cleans == {-DAY} \cup
                      {cleaning_events[k].start : k \in
                          {m \in 1..Len(cleaning_events) :
                              /\ cleaning_events[m].type = "form_clean"
                              /\ cleaning_events[m].start
                                    <= all_batches[i].form_start}}
                   last  == CHOOSE c \in cleans : \A d \in cleans : d <= c
               IN  all_batches[i].form_start - last < CLEAN_DUE)
    /\ [][ \A team_num \in {1, 2} :
             (/\ pc = (IF team_num = 1 THEN "team1" ELSE "team2")
              /\ team_num = 2 => cfg.TEAM_CONFIG = "2team_24/7"
              /\ (IF team_num = 1 THEN team1_free ELSE team2_free) <= time
              /\ cfg.CLEANING_ENABLED
              /\ form_area_free <= time
              /\ time - last_form_clean_time >= CLEAN_DUE)
             => /\ cleaning_events' = Append(cleaning_events,
                      [type |-> "form_clean", team |-> team_num, oven_set |-> 0,
                       start |-> time, end |-> time + cfg.FORM_CLEAN_TIME])
                /\ last_form_clean_time' = time
                /\ all_batches' = all_batches ]_vars

(* The form area cleaned a second time, a day after the first cleaning, by *)
(* crew 2, and a batch formed after that cleaning.                         *)
C25_Witness ==
    /\ cfg.CLEANING_ENABLED
    /\ \E k \in 1..Len(cleaning_events) :
          /\ cleaning_events[k].type = "form_clean"
          /\ cleaning_events[k].team = 2
          /\ cleaning_events[k].start >= DAY
          /\ \E i \in BatchIdx :
                all_batches[i].form_start >= cleaning_events[k].end

-----------------------------------------------------------------------------
(* C26: with cleaning enabled, no batch is formed for an oven set that is  *)
(* 24 h or more past its last clean when the forming starts.               *)
C26_OvenCleanBeforeForm ==
    cfg.CLEANING_ENABLED =>
        \A i \in BatchIdx :
           LET cleans == {-DAY} \cup
                  {cleaning_events[k].start : k \in
                      {m \in 1..Len(cleaning_events) :
                          /\ cleaning_events[m].type = "oven_clean"
                          /\ cleaning_events[m].oven_set = all_batches[i].oven_set
                          /\ cleaning_events[m].start
                                <= all_batches[i].form_start}}
               last  == CHOOSE c \in cleans : \A d \in cleans : d <= c
           IN  all_batches[i].form_start - last < CLEAN_DUE

(* The same statement for the batches formed by crew 1 alone.              *)
C26_OvenCleanBeforeForm_crew1 ==
    cfg.CLEANING_ENABLED =>
        \A i \in BatchIdx :
           LET cleans == {-DAY} \cup
                  {cleaning_events[k].start : k \in
                      {m \in 1..Len(cleaning_events) :
                          /\ cleaning_events[m].type = "oven_clean"
                          /\ cleaning_events[m].oven_set = all_batches[i].oven_set
                          /\ cleaning_events[m].start
                                <= all_batches[i].form_start}}
               last  == CHOOSE c \in cleans : \A d \in cleans : d <= c
           IN  all_batches[i].formed_by = 1
                  => all_batches[i].form_start - last < CLEAN_DUE

(* Crew 2 has formed a batch into oven set 1 a day or more after the only  *)
(* cleaning of that oven set, which was still busy at that moment.         *)
C26_FormedIntoDueOven ==
    /\ cfg.CLEANING_ENABLED
    /\ \E i \in BatchIdx :
          /\ all_batches[i].formed_by = 2
          /\ all_batches[i].oven_set = 1
          /\ all_batches[i].form_start - last_oven1_clean_time >= CLEAN_DUE
          /\ last_oven1_clean_time >= 0

-----------------------------------------------------------------------------
(* C27: crew 1 enters urgent-wait only when nothing else is schedulable:   *)
(* a free crew 1 with no cleaning to do, the form area free, a sheet       *)
(* available and some oven set free within FORM_TIME forms a batch.        *)
C27_UrgentWaitLast ==
    [][ (/\ pc = "team1" /\ team1_free <= time
         /\ ~(needs.form /\ form_area_free <= time)
         /\ get_free_oven_needing_clean = None
         /\ form_area_free <= time
         /\ sheets_available
         /\ \E o \in 1..cfg.NUM_OVEN_SETS : OvenFree(o) <= time + cfg.FORM_TIME)
        => Len(all_batches') = Len(all_batches) + 1 ]_vars

(* The same statement for the decisions in which no oven set is in         *)
(* urgent-wait condition (22 h or more past its clean and busy).           *)
C27_UrgentWaitLast_no_urgent_oven ==
    [][ (/\ pc = "team1" /\ team1_free <= time
         /\ ~(needs.form /\ form_area_free <= time)
         /\ get_free_oven_needing_clean = None
         /\ get_urgent_oven_not_free = None
         /\ form_area_free <= time
         /\ sheets_available
         /\ \E o \in 1..cfg.NUM_OVEN_SETS : OvenFree(o) <= time + cfg.FORM_TIME)
        => Len(all_batches') = Len(all_batches) + 1 ]_vars

(* Crew 1 about to enter urgent-wait on oven set 1 while the form area is  *)
(* free, a sheet is available and oven set 2 is free and not due.          *)
C27_UrgentWaitWhileFormable ==
    /\ pc = "team1" /\ T1Branch = "urgent"
    /\ get_urgent_oven_not_free = 1
    /\ form_area_free <= time /\ sheets_available
    /\ cfg.NUM_OVEN_SETS = 2 /\ oven2_free <= time /\ ~needs.oven2_urgent

-----------------------------------------------------------------------------
(* C28: after crew 1 has entered urgent-wait on a busy oven set, the next  *)
(* activity that uses that oven set is its cleaning; no batch is formed    *)
(* into it first.  Checked on the round of the entry: when crew 1 takes    *)
(* the urgent-wait branch, crew 2's decision of the same round (the state  *)
(* after the step) is not a forming into the awaited oven set.             *)
C28_CleanAfterUrgentWait ==
    [][ (pc = "team1" /\ T1Branch = "urgent")
          => ~(/\ T2Branch' = "form"
               /\ t2_best_oven' = get_urgent_oven_not_free) ]_vars

(* Crew 1 waits for the busy, urgent oven set 1 and has nothing to cut,    *)
(* and crew 2 is about to form a batch into that oven set.                 *)
C28_FormsIntoAwaitedOven ==
    /\ pc = "team2" /\ T2Branch = "form" /\ t2_best_oven = 1
    /\ needs.oven1_urgent /\ oven1_free > time
    /\ team1_free = oven1_free
    /\ ~\E i \in BatchIdx : /\ all_batches[i].formed_by = 1
                            /\ all_batches[i].form_end > time
    /\ ~\E k \in 1..Len(cleaning_events) : /\ cleaning_events[k].team = 1
                                           /\ cleaning_events[k].end > time
    /\ ready_to_cut(being_cut) = <<>>

-----------------------------------------------------------------------------
(* C29: a free crew with an own in-progress cut (cut_by that crew,         *)
(* cut_progress > 0) that has less than 1 h of work left and is ready to   *)
(* resume does not form a batch and does not cut another batch in this     *)
(* decision.                                                               *)
C29_FinishOwnCut ==
    [][ \A team_num \in {1, 2} :
          LET ready == IF IsPC THEN pc_ready_to_cut(being_cut, team_num)
                       ELSE ready_to_cut(being_cut)
              own   == {ready[k] : k \in {m \in 1..Len(ready) :
                           /\ RemainingCut(ready[m]) < HOUR
                           /\ B(ready[m]).cut_progress > 0
                           /\ B(ready[m]).cut_by = team_num}}
              free  == IF team_num = 1
                       THEN pc = "team1" /\ team1_free <= time
                       ELSE /\ pc = "team2" /\ team2_free <= time
                            /\ IF IsPC THEN pc_team2_enabled /\ pc_team2_on(time)
                               ELSE team2_enabled /\ team2_on(time)
          IN  (free /\ own # {})
                => /\ Len(all_batches') = Len(all_batches)
                   /\ \A i \in BatchIdx :
                         all_batches'[i] # all_batches[i]
                            => all_batches[i].id \in own ]_vars

(* The same statement for product_config.py alone, with the cut itself:    *)
(* the crew cuts the first such batch, to its end or to the shift end.     *)
C29_FinishOwnCut_product_config ==
    [][ \A team_num \in {1, 2} :
          LET ready == pc_ready_to_cut(being_cut, team_num)
              own   == SelectSeq(ready,
                         LAMBDA id : /\ RemainingCut(id) < HOUR
                                     /\ B(id).cut_progress > 0
                                     /\ B(id).cut_by = team_num)
              free  == IF team_num = 1
                       THEN pc = "team1" /\ team1_free <= time
                       ELSE /\ pc = "team2" /\ team2_free <= time
                            /\ pc_team2_enabled /\ pc_team2_on(time)
          IN  (IsPC /\ free /\ own # <<>>)
                => /\ Len(all_batches') = Len(all_batches)
                   /\ \A i \in BatchIdx :
                         all_batches'[i] # all_batches[i]
                            => all_batches[i].id = own[1]
                   /\ \E k \in {own[1] - all_batches[1].id + 1} :
                      \/ all_batches'[k].cut_end = time + RemainingCut(own[1])
                      \/ /\ team_num = 2
                         /\ time + RemainingCut(own[1]) > team2_shift_end(time) ]_vars

(* Crew 1 of app.py free with an own paused cut of less than 1 h left and  *)
(* about to form a batch.                                                  *)
C29_FormsBeforeFinishing ==
    /\ ~IsPC /\ pc = "team1" /\ T1Branch = "form"
    /\ \E k \in 1..Len(ready_to_cut(being_cut)) :
          /\ RemainingCut(ready_to_cut(being_cut)[k]) < HOUR
          /\ B(ready_to_cut(being_cut)[k]).cut_progress > 0
          /\ B(ready_to_cut(being_cut)[k]).cut_by = 1

-----------------------------------------------------------------------------
(* C30: every cutting interval a crew starts lasts exactly the lesser of   *)
(* the batch's remaining cut time and the time until the crew's next       *)
(* forming deadline (oven free time minus FORM_TIME, when it lies ahead    *)
(* and the crew can form) or shift boundary; in particular the interval    *)
(* of a forming-capable crew does not extend past that deadline.           *)
C30_CutInterval ==
    [][ \A team_num \in {1, 2} : \A i \in BatchIdx :
          LET work      == all_batches'[i].cut_progress
                             - all_batches[i].cut_progress
              remaining == cfg.CUT_TIME - all_batches[i].cut_progress
              oven_free == IF IsPC
                           THEN (IF team_num = 2 /\ cfg.NUM_OVEN_SETS = 2
                                 THEN oven2_free ELSE oven1_free)
                           ELSE OvenFree(BestOven(team_num))
              deadline  == oven_free - cfg.FORM_TIME
              forming   == IsPC \/ team_num = 1 \/ cfg.TEAM_CONFIG = "2team_24/7"
              shift_end == IF team_num = 2 THEN team2_shift_end(time) ELSE Inf
              limits    == {remaining}
                             \cup (IF forming /\ deadline > time
                                   THEN {deadline - time} ELSE {})
                             \cup (IF shift_end # Inf
                                   THEN {shift_end - time} ELSE {})
          IN  (/\ pc = (IF team_num = 1 THEN "team1" ELSE "team2")
               /\ work > 0)
                => work = Min(limits) ]_vars

(* The same statement for each program alone.                              *)
C30_CutInterval_app ==
    [][ \A team_num \in {1, 2} : \A i \in BatchIdx :
          LET work      == all_batches'[i].cut_progress
                             - all_batches[i].cut_progress
              remaining == cfg.CUT_TIME - all_batches[i].cut_progress
              deadline  == OvenFree(BestOven(team_num)) - cfg.FORM_TIME
              forming   == team_num = 1 \/ cfg.TEAM_CONFIG = "2team_24/7"
              shift_end == IF team_num = 2 THEN team2_shift_end(time) ELSE Inf
              limits    == {remaining}
                             \cup (IF forming /\ deadline > time
                                   THEN {deadline - time} ELSE {})
                             \cup (IF shift_end # Inf
                                   THEN {shift_end - time} ELSE {})
          IN  (/\ ~IsPC
               /\ pc = (IF team_num = 1 THEN "team1" ELSE "team2")
               /\ work > 0)
                => work = Min(limits) ]_vars

C30_CutInterval_product_config ==
    [][ \A team_num \in {1, 2} : \A i \in BatchIdx :
          LET work      == all_batches'[i].cut_progress
                             - all_batches[i].cut_progress
              remaining == cfg.CUT_TIME - all_batches[i].cut_progress
              deadline  == (IF team_num = 2 /\ cfg.NUM_OVEN_SETS = 2
                            THEN oven2_free ELSE oven1_free) - cfg.FORM_TIME
              shift_end == IF team_num = 2 THEN team2_shift_end(time) ELSE Inf
              limits    == {remaining}
                             \cup (IF deadline > time
                                   THEN {deadline - time} ELSE {})
                             \cup (IF shift_end # Inf
                                   THEN {shift_end - time} ELSE {})
          IN  (/\ IsPC
               /\ pc = (IF team_num = 1 THEN "team1" ELSE "team2")
               /\ work > 0)
                => work = Min(limits) ]_vars

(* app.py: crew 1 has just started a cutting interval that ends after its  *)
(* forming deadline, which lies ahead, with the form area free and a sheet *)
(* available.                                                              *)
C30_CutPastDeadline ==
    /\ ~IsPC /\ pc = "team2"
    /\ cfg.NUM_OVEN_SETS = 1 /\ ~cfg.CLEANING_ENABLED
    /\ oven1_free - cfg.FORM_TIME > time
    /\ form_area_free <= time /\ sheets_available
    /\ \E i \in BatchIdx :
          /\ all_batches[i].cut_sessions # <<>>
          /\ Last(all_batches[i].cut_sessions)[1] = time
          /\ Last(all_batches[i].cut_sessions)[3] = 1
          /\ Last(all_batches[i].cut_sessions)[2] > oven1_free - cfg.FORM_TIME

-----------------------------------------------------------------------------
(* C31: in a decision in which forming is permitted (form area free, the   *)
(* target oven set free within FORM_TIME, a sheet of some product free)    *)
(* and no earlier rule of the dispatch order applies (cleaning, urgent     *)
(* wait, an own cut with less than 1 h left), the crew forms the product   *)
(* the priority policy prefers if a sheet of it is free, otherwise the     *)
(* other product; it neither cuts nor idles.                               *)
C31_FormPreferred ==
    [][ \A team_num \in {1, 2} :
          LET free    == IF team_num = 1
                         THEN pc = "team1" /\ team1_free <= time
                         ELSE /\ pc = "team2" /\ team2_free <= time
                              /\ IF IsPC THEN pc_team2_enabled /\ pc_team2_on(time)
                                 ELSE cfg.TEAM_CONFIG = "2team_24/7"
              ready   == IF IsPC THEN pc_ready_to_cut(being_cut, team_num)
                         ELSE <<>>
              earlier == IF IsPC
                         THEN \E k \in 1..Len(ready) :
                                 /\ RemainingCut(ready[k]) < HOUR
                                 /\ B(ready[k]).cut_progress > 0
                                 /\ B(ready[k]).cut_by = team_num
                         ELSE \/ needs.form /\ form_area_free <= time
                              \/ needs.oven1 /\ oven1_free <= time
                              \/ /\ cfg.NUM_OVEN_SETS = 2 /\ oven2_free <= time
                                 /\ (IF team_num = 1 THEN needs.oven2
                                     ELSE needs_oven2_clean(time))
                              \/ team_num = 1 /\ get_urgent_oven_not_free # None
              wb_free == IF IsPC THEN pc_active_wb < cfg.WB_SHEETS
                         ELSE active_wb < cfg.WB_SHEETS
              bb_free == IF IsPC THEN pc_active_bb < cfg.BB_SHEETS
                         ELSE active_bb < cfg.BB_SHEETS
              oven    == IF IsPC
                         THEN (IF team_num = 2 /\ cfg.NUM_OVEN_SETS = 2
                               THEN oven2_free ELSE oven1_free)
                         ELSE OvenFree(BestOven(team_num))
              on_shift == (IsPC /\ team_num = 2 /\ team2_shift_end(time) # Inf)
                            => team2_shift_end(time) - time >= cfg.FORM_TIME
              permitted == /\ IsPC \/ form_area_free <= time
                           /\ oven <= time + cfg.FORM_TIME
                           /\ wb_free \/ bb_free
                           /\ on_shift
          IN  (free /\ ~earlier /\ permitted)
                => /\ Len(all_batches') = Len(all_batches) + 1
                   /\ Last(all_batches').product =
                         (IF get_priority
                          THEN (IF wb_free THEN "WB" ELSE "BB")
                          ELSE (IF bb_free THEN "BB" ELSE "WB")) ]_vars

(* The same statement for app.py alone.                                    *)
C31_FormPreferred_app ==
    [][ \A team_num \in {1, 2} :
          LET free    == IF team_num = 1
                         THEN pc = "team1" /\ team1_free <= time
                         ELSE /\ pc = "team2" /\ team2_free <= time
                              /\ cfg.TEAM_CONFIG = "2team_24/7"
              earlier == \/ needs.form /\ form_area_free <= time
                         \/ needs.oven1 /\ oven1_free <= time
                         \/ /\ cfg.NUM_OVEN_SETS = 2 /\ oven2_free <= time
                            /\ (IF team_num = 1 THEN needs.oven2
                                ELSE needs_oven2_clean(time))
                         \/ team_num = 1 /\ get_urgent_oven_not_free # None
              wb_free == active_wb < cfg.WB_SHEETS
              bb_free == active_bb < cfg.BB_SHEETS
              permitted == /\ form_area_free <= time
                           /\ OvenFree(BestOven(team_num)) <= time + cfg.FORM_TIME
                           /\ wb_free \/ bb_free
          IN  (~IsPC /\ free /\ ~earlier /\ permitted)
                => /\ Len(all_batches') = Len(all_batches) + 1
                   /\ Last(all_batches').product =
                         (IF get_priority
                          THEN (IF wb_free THEN "WB" ELSE "BB")
                          ELSE (IF bb_free THEN "BB" ELSE "WB")) ]_vars

(* product_config.py: crew 2 free and allowed to form, the policy prefers  *)
(* WB and a WB sheet is free, yet do_work counts no WB sheet available.    *)
C31_PreferredSheetMiscounted ==
    /\ IsPC /\ pc = "team2" /\ team2_free <= time
    /\ cfg.TEAM_CONFIG = "2team_24/7" /\ cfg.NUM_OVEN_SETS = 2
    /\ time >= oven2_free - cfg.FORM_TIME
    /\ get_priority
    /\ pc_active_wb < cfg.WB_SHEETS
    /\ pc_available_wb <= 0 /\ pc_available_bb > 0
    /\ pc_ready_to_cut(being_cut, 2) = <<>>

-----------------------------------------------------------------------------
(* C32: a crew starting a cutting interval cuts a first batch of the ready *)
(* set in the order: BB batches in progress (most progress first), then    *)
(* other batches in progress (most progress first), then fresh batches by  *)
(* earliest cure_end.                                                      *)
C32_CutOrder ==
    [][ \A team_num \in {1, 2} : \A i \in BatchIdx :
          LET ready  == IF IsPC THEN pc_ready_to_cut(being_cut, team_num)
                        ELSE ready_to_cut(being_cut)
              ids    == {ready[k] : k \in 1..Len(ready)}
              key(id) == IF B(id).product = "BB" /\ B(id).cut_progress > 0
                         THEN <<0, -B(id).cut_progress>>
                         ELSE IF B(id).cut_progress > 0
                              THEN <<1, -B(id).cut_progress>>
                              ELSE <<2, B(id).cure_end>>
              le(a, b) == a[1] < b[1] \/ (a[1] = b[1] /\ a[2] <= b[2])
          IN  (/\ TRUE
               /\ pc = (IF team_num = 1 THEN "team1" ELSE "team2")
               /\ all_batches'[i].cut_progress > all_batches[i].cut_progress)
                => /\ all_batches[i].id \in ids
                   /\ \A j \in ids : le(key(all_batches[i].id), key(j)) ]_vars

(* Both programs, the command-line variant with a one-hour forming time:   *)
(* its crews then pause cuts of different batches at the same instant.     *)
PCInitShortForm ==
    /\ cfg \in {[c EXCEPT !.FORM_TIME = HOUR] : c \in PCConfigs}
    /\ stream \in Streams
    /\ PCInitRun

SpecCutOrder == (Init \/ PCInitShortForm) /\ [][NextBoth]_vars

(* The same statement for each program alone.                              *)
C32_CutOrder_app ==
    [][ \A team_num \in {1, 2} : \A i \in BatchIdx :
          LET ready  == IF IsPC THEN pc_ready_to_cut(being_cut, team_num)
                        ELSE ready_to_cut(being_cut)
              ids    == {ready[k] : k \in 1..Len(ready)}
              key(id) == IF B(id).product = "BB" /\ B(id).cut_progress > 0
                         THEN <<0, -B(id).cut_progress>>
                         ELSE IF B(id).cut_progress > 0
                              THEN <<1, -B(id).cut_progress>>
                              ELSE <<2, B(id).cure_end>>
              le(a, b) == a[1] < b[1] \/ (a[1] = b[1] /\ a[2] <= b[2])
          IN  (/\ ~IsPC
               /\ pc = (IF team_num = 1 THEN "team1" ELSE "team2")
               /\ all_batches'[i].cut_progress > all_batches[i].cut_progress)
                => /\ all_batches[i].id \in ids
                   /\ \A j \in ids : le(key(all_batches[i].id), key(j)) ]_vars

C32_CutOrder_product_config ==
    [][ \A team_num \in {1, 2} : \A i \in BatchIdx :
          LET ready  == IF IsPC THEN pc_ready_to_cut(being_cut, team_num)
                        ELSE ready_to_cut(being_cut)
              ids    == {ready[k] : k \in 1..Len(ready)}
              key(id) == IF B(id).product = "BB" /\ B(id).cut_progress > 0
                         THEN <<0, -B(id).cut_progress>>
                         ELSE IF B(id).cut_progress > 0
                              THEN <<1, -B(id).cut_progress>>
                              ELSE <<2, B(id).cure_end>>
              le(a, b) == a[1] < b[1] \/ (a[1] = b[1] /\ a[2] <= b[2])
          IN  (/\ IsPC
               /\ pc = (IF team_num = 1 THEN "team1" ELSE "team2")
               /\ all_batches'[i].cut_progress > all_batches[i].cut_progress)
                => /\ all_batches[i].id \in ids
                   /\ \A j \in ids : le(key(all_batches[i].id), key(j)) ]_vars

(* The command-line variant's crew 2 is about to resume its own WB batch   *)
(* while a BB batch in progress is ready as well.                          *)
C32_OwnCutBeforeBB ==
    /\ IsPC /\ pc = "team2" /\ team2_free <= time
    /\ LET ready == pc_ready_to_cut(being_cut, 2)
       IN  /\ Len(ready) >= 2
           /\ B(ready[1]).product = "WB" /\ B(ready[1]).cut_progress > 0
           /\ B(ready[1]).cut_by = 2
           /\ \E k \in 2..Len(ready) :
                 B(ready[k]).product = "BB" /\ B(ready[k]).cut_progress > 0

-----------------------------------------------------------------------------
(* C33: in day-shift mode crew 2 starts no fresh cut when less than 30     *)
(* minutes remain before its shift end; a batch in progress that cannot be *)
(* finished before the shift end is cut up to the shift end: one partial   *)
(* session ending exactly at the shift end, the progress kept.             *)
C33_ShiftEndCut ==
    [][ \A i \in BatchIdx :
          LET b          == all_batches[i]
              shift_end  == team2_shift_end(time)
              remaining  == cfg.CUT_TIME - b.cut_progress
          IN  (/\ TRUE
               /\ cfg.TEAM_CONFIG = "2team_6-6" /\ pc = "team2"
               /\ all_batches'[i].cut_progress > b.cut_progress)
                => /\ b.cut_progress = 0 => shift_end - time >= FORM_SOON
                   /\ (b.cut_progress > 0 /\ shift_end - time < remaining)
                        => /\ Last(all_batches'[i].cut_sessions)
                                = <<time, shift_end, 2>>
                           /\ all_batches'[i].cut_progress
                                = b.cut_progress + (shift_end - time)
                           /\ all_batches'[i].cut_end = None ]_vars

(* The same statement for each program alone.                              *)
C33_ShiftEndCut_app ==
    [][ \A i \in BatchIdx :
          LET b          == all_batches[i]
              shift_end  == team2_shift_end(time)
              remaining  == cfg.CUT_TIME - b.cut_progress
          IN  (/\ ~IsPC
               /\ cfg.TEAM_CONFIG = "2team_6-6" /\ pc = "team2"
               /\ all_batches'[i].cut_progress > b.cut_progress)
                => /\ b.cut_progress = 0 => shift_end - time >= FORM_SOON
                   /\ (b.cut_progress > 0 /\ shift_end - time < remaining)
                        => /\ Last(all_batches'[i].cut_sessions)
                                = <<time, shift_end, 2>>
                           /\ all_batches'[i].cut_progress
                                = b.cut_progress + (shift_end - time)
                           /\ all_batches'[i].cut_end = None ]_vars

C33_ShiftEndCut_product_config ==
    [][ \A i \in BatchIdx :
          LET b          == all_batches[i]
              shift_end  == team2_shift_end(time)
              remaining  == cfg.CUT_TIME - b.cut_progress
          IN  (/\ IsPC
               /\ cfg.TEAM_CONFIG = "2team_6-6" /\ pc = "team2"
               /\ all_batches'[i].cut_progress > b.cut_progress)
                => /\ b.cut_progress = 0 => shift_end - time >= FORM_SOON
                   /\ (b.cut_progress > 0 /\ shift_end - time < remaining)
                        => /\ Last(all_batches'[i].cut_sessions)
                                = <<time, shift_end, 2>>
                           /\ all_batches'[i].cut_progress
                                = b.cut_progress + (shift_end - time)
                           /\ all_batches'[i].cut_end = None ]_vars

(* The command-line variant's crew 2 has recorded a session of a batch in  *)
(* progress that runs past the end of its shift.                           *)
C33_CutPastShiftEnd ==
    /\ IsPC /\ cfg.TEAM_CONFIG = "2team_6-6"
    /\ \E i \in BatchIdx :
          LET ss == all_batches[i].cut_sessions
          IN  /\ Len(ss) >= 2
              /\ Last(ss)[3] = 2
              /\ Last(ss)[2] > team2_shift_end(Last(ss)[1])

-----------------------------------------------------------------------------
(* C34: in '2team_24/7' mode every batch formed by crew 2 cooks in oven    *)
(* set 2 when two oven sets exist and in oven set 1 when only one exists.  *)
C34_Crew2Oven ==
    (TRUE /\ cfg.TEAM_CONFIG = "2team_24/7")
        => \A i \in BatchIdx :
              all_batches[i].formed_by = 2
                => all_batches[i].oven_set
                      = (IF cfg.NUM_OVEN_SETS = 2 THEN 2 ELSE 1)

(* The same statement for each program alone.                              *)
C34_Crew2Oven_app ==
    (~IsPC /\ cfg.TEAM_CONFIG = "2team_24/7")
        => \A i \in BatchIdx :
              all_batches[i].formed_by = 2
                => all_batches[i].oven_set
                      = (IF cfg.NUM_OVEN_SETS = 2 THEN 2 ELSE 1)

C34_Crew2Oven_product_config ==
    (IsPC /\ cfg.TEAM_CONFIG = "2team_24/7")
        => \A i \in BatchIdx :
              all_batches[i].formed_by = 2
                => all_batches[i].oven_set
                      = (IF cfg.NUM_OVEN_SETS = 2 THEN 2 ELSE 1)

(* Two oven sets, and crew 2 has formed a batch into oven set 1.           *)
C34_Crew2InOven1 ==
    /\ cfg.TEAM_CONFIG = "2team_24/7" /\ cfg.NUM_OVEN_SETS = 2
    /\ \E i \in BatchIdx :
          all_batches[i].formed_by = 2 /\ all_batches[i].oven_set = 1

-----------------------------------------------------------------------------
(* C35: every cutting interval is recorded as exactly one cut session      *)
(* tagged with the crew that worked; after each cut() call the batch has   *)
(* no open session, its sessions are in chronological order, and their     *)
(* durations add up to cut_progress, which is CUT_TIME once cut_end is set. *)
C35_CutSessions ==
    /\ [](\A i \in BatchIdx :
            LET b  == all_batches[i]
                ss == b.cut_sessions
            IN  /\ b.current_cut_session_start = None
                /\ b.current_cut_team = None
                /\ \A k \in 1..Len(ss) : ss[k][1] < ss[k][2]
                /\ \A k \in 1..(Len(ss) - 1) : ss[k][2] <= ss[k + 1][1]
                /\ SumSeq([k \in 1..Len(ss) |-> ss[k][2] - ss[k][1]])
                      = b.cut_progress
                /\ b.cut_end # None
                      => b.cut_progress = cfg.CUT_TIME /\ b.cut_end = Last(ss)[2])
    /\ [][ \A team_num \in {1, 2} : \A i \in BatchIdx :
             (/\ pc = (IF team_num = 1 THEN "team1" ELSE "team2")
              /\ all_batches'[i].cut_progress > all_batches[i].cut_progress)
               => all_batches'[i].cut_sessions
                    = Append(all_batches[i].cut_sessions,
                             <<time,
                               time + (all_batches'[i].cut_progress
                                         - all_batches[i].cut_progress),
                               team_num>>) ]_vars
    /\ [][ \A i \in BatchIdx :
             all_batches'[i].cut_sessions # all_batches[i].cut_sessions
               => all_batches'[i].cut_progress > all_batches[i].cut_progress ]_vars

(* A batch of each program has been cut in two sessions by two crews and   *)
(* is finished.                                                            *)
C35_Witness ==
    \E i \in BatchIdx :
        LET ss == all_batches[i].cut_sessions
        IN  /\ Len(ss) >= 2
            /\ ss[1][3] # ss[2][3]
            /\ all_batches[i].cut_end # None

-----------------------------------------------------------------------------
(* C36: a crew performs at most one activity at a time: it is dispatched   *)
(* only when its next-free time is not after the clock, and the intervals  *)
(* in which it forms, cleans and cuts do not overlap pairwise.             *)
C36_OneActivity ==
    /\ [](\A team_num \in {1, 2} :
            LET forms  == {<<all_batches[i].form_start, all_batches[i].form_end,
                             "form", i, 0>> :
                             i \in {j \in BatchIdx :
                                      all_batches[j].formed_by = team_num}}
                cleans == {<<cleaning_events[i].start, cleaning_events[i].end,
                             "clean", i, 0>> :
                             i \in {j \in 1..Len(cleaning_events) :
                                      cleaning_events[j].team = team_num}}
                cuts   == UNION {{<<all_batches[i].cut_sessions[k][1],
                                    all_batches[i].cut_sessions[k][2],
                                    "cut", i, k>> :
                                    k \in {n \in 1..Len(all_batches[i].cut_sessions) :
                                             all_batches[i].cut_sessions[n][3] = team_num}} :
                                 i \in BatchIdx}
                all    == forms \cup cleans \cup cuts
            IN  \A x, y \in all :
                   x # y => (x[2] <= y[1] \/ y[2] <= x[1]))
    /\ [][ \A team_num \in {1, 2} :
             (/\ pc = (IF team_num = 1 THEN "team1" ELSE "team2")
              /\ \/ all_batches' # all_batches
                 \/ cleaning_events' # cleaning_events)
               => (IF team_num = 1 THEN team1_free ELSE team2_free) <= time ]_vars

(* Crew 2 has formed, cleaned and cut in one run.                          *)
C36_Witness ==
    /\ \E i \in BatchIdx : all_batches[i].formed_by = 2
    /\ \E i \in 1..Len(cleaning_events) : cleaning_events[i].team = 2
    /\ \E i \in BatchIdx : \E k \in 1..Len(all_batches[i].cut_sessions) :
          all_batches[i].cut_sessions[k][3] = 2

-----------------------------------------------------------------------------
(* Runs of twice the horizon, long enough for batches to finish curing a   *)
(* full day before it: every crew mode, oven-set count, policy, cleaning   *)
(* and stop_at_target setting under two draw streams, run to their end.    *)
LongInit ==
    /\ cfg \in {[c EXCEPT !.TOTAL_HOURS = 2 * HorizonTicks] : c \in Configs}
    /\ stream \in LiveStreams
    /\ InitRun

LongSpec == LongInit /\ [][Next]_vars /\ WF_vars(Next)

(* C37: leaving aside the batches that the horizon cuts off (those that    *)
(* finish curing less than a day before it), every formed batch is         *)
(* eventually cut to completion, in every crew mode and under every        *)
(* priority policy.                                                        *)
C37_EveryBatchCut ==
    <>(/\ pc = "done"
       /\ \A i \in BatchIdx :
             all_batches[i].cure_end + DAY <= cfg.TOTAL_HOURS
               => all_batches[i].cut_end # None)

(* A batch that waited ready for more than six hours has been finished.    *)
C37_Witness ==
    \E i \in BatchIdx :
        /\ all_batches[i].cut_end # None
        /\ all_batches[i].cure_end + DAY <= cfg.TOTAL_HOURS
        /\ all_batches[i].cut_start >= all_batches[i].cure_end + 6 * HOUR

-----------------------------------------------------------------------------
(* C38: a batch's yield is in total_wb / total_bb only if its cut_end is   *)
(* at or before the horizon TOTAL_HOURS: the totals never exceed the yield *)
(* of the batches cut to completion by the horizon.                        *)
C38_YieldByHorizon ==
    TRUE =>
      LET counted(product) ==
              Cardinality({i \in BatchIdx :
                             /\ all_batches[i].product = product
                             /\ all_batches[i].cut_end # None
                             /\ all_batches[i].cut_end <= cfg.TOTAL_HOURS})
      IN  /\ total_wb <= counted("WB") * cfg.WB_PER_BATCH
          /\ total_bb <= counted("BB") * cfg.BB_PER_BATCH

(* The same statement for each program alone.                              *)
C38_YieldByHorizon_app ==
    ~IsPC =>
      LET counted(product) ==
              Cardinality({i \in BatchIdx :
                             /\ all_batches[i].product = product
                             /\ all_batches[i].cut_end # None
                             /\ all_batches[i].cut_end <= cfg.TOTAL_HOURS})
      IN  /\ total_wb <= counted("WB") * cfg.WB_PER_BATCH
          /\ total_bb <= counted("BB") * cfg.BB_PER_BATCH

C38_YieldByHorizon_product_config ==
    IsPC =>
      LET counted(product) ==
              Cardinality({i \in BatchIdx :
                             /\ all_batches[i].product = product
                             /\ all_batches[i].cut_end # None
                             /\ all_batches[i].cut_end <= cfg.TOTAL_HOURS})
      IN  /\ total_wb <= counted("WB") * cfg.WB_PER_BATCH
          /\ total_bb <= counted("BB") * cfg.BB_PER_BATCH

(* The web variant has ended a run with a batch in its totals whose last   *)
(* cutting interval ends after the horizon.                                *)
C38_CountedPastHorizon ==
    /\ ~IsPC /\ pc = "done"
    /\ \E i \in BatchIdx :
          /\ all_batches[i].cut_end # None
          /\ all_batches[i].cut_end > cfg.TOTAL_HOURS
    /\ total_wb + total_bb
         = SumSeq([i \in BatchIdx |->
                     IF all_batches[i].cut_end = None THEN 0
                     ELSE IF all_batches[i].product = "WB"
                          THEN cfg.WB_PER_BATCH ELSE cfg.BB_PER_BATCH])

(* The command-line variant has ended a run with a batch left out of its   *)
(* totals because its last cutting interval ends after the horizon.        *)
C38_LeftOutPastHorizon ==
    /\ IsPC /\ pc = "done"
    /\ \E i \in BatchIdx :
          /\ all_batches[i].cut_end # None
          /\ all_batches[i].cut_end > cfg.TOTAL_HOURS

-----------------------------------------------------------------------------
(* C39: with stop_at_target enabled and a positive target the total of a   *)
(* product stays below its target plus SHEETS x PER_BATCH of that product. *)
C39_OvershootBound ==
    (~IsPC /\ cfg.STOP_AT_TARGET)
      => /\ cfg.WB_TARGET > 0
              => total_wb < cfg.WB_TARGET + cfg.WB_SHEETS * cfg.WB_PER_BATCH
         /\ cfg.BB_TARGET > 0
              => total_bb < cfg.BB_TARGET + cfg.BB_SHEETS * cfg.BB_PER_BATCH

(* A run has ended beyond both positive targets: batches in flight when a  *)
(* target was reached have added to the total.                             *)
C39_Witness ==
    /\ ~IsPC /\ cfg.STOP_AT_TARGET /\ pc = "done"
    /\ cfg.WB_TARGET > 0 /\ total_wb > cfg.WB_TARGET
    /\ cfg.BB_TARGET > 0 /\ total_bb > cfg.BB_TARGET

-----------------------------------------------------------------------------
(* The what-if team upgrade of analyze_bottleneck_with_whatif (app.py      *)
(* 1079-1087): the simulator is run once more on the configuration with    *)
(* team_config replaced by team_upgrades[current_team].                    *)
team_upgrades(current_team) ==
    IF current_team = "1team" THEN "2team_6-6" ELSE "2team_24-7"

WhatIfInit ==
    \/ Init
    \/ /\ cfg \in {[c EXCEPT !.TEAM_CONFIG = team_upgrades(c.TEAM_CONFIG)] :
                     c \in {d \in Configs :
                              d.TEAM_CONFIG \in {"1team", "2team_6-6"}}}
       /\ stream \in Streams
       /\ InitRun

SpecWhatIf == WhatIfInit /\ [][Next]_vars

(* C40: the run that evaluates the upgrade from '2team_6-6' has crew 2 in  *)
(* continuous mode: always on shift, and dispatched as in '2team_24/7'     *)
(* (forming and cleaning allowed), never as the day crew.                  *)
C40_UpgradeContinuous ==
    cfg.TEAM_CONFIG = team_upgrades("2team_6-6")
      => /\ team2_enabled
         /\ team2_on(time)
         /\ T2Branch \notin {"off_shift", "day_cut", "day_idle"}

(* The run evaluating the upgrade from '2team_6-6' has ended with crew 2   *)
(* having cut on its day shift and formed and cleaned nothing.             *)
C40_UpgradeRunsDayShift ==
    /\ cfg.TEAM_CONFIG = team_upgrades("2team_6-6")
    /\ pc = "done"
    /\ cfg.CLEANING_ENABLED
    /\ \E i \in BatchIdx : \E k \in 1..Len(all_batches[i].cut_sessions) :
          all_batches[i].cut_sessions[k][3] = 2
    /\ \A i \in BatchIdx :
          /\ all_batches[i].formed_by = 1
          /\ \A k \in 1..Len(all_batches[i].cut_sessions) :
                all_batches[i].cut_sessions[k][3] = 2
                  => /\ all_batches[i].cut_sessions[k][1] >= cfg.TEAM2_START
                     /\ all_batches[i].cut_sessions[k][2] <= cfg.TEAM2_END
    /\ \A i \in 1..Len(cleaning_events) : cleaning_events[i].team = 1

====
